---- MODULE Spec2Model ----
(***************************************************************************)
(* A model of the task-execution orchestration core of tes-azure:          *)
(*   - AzureBatchEngine.createJob / create_task (backends/batch),          *)
(*   - AzureBatchEngine.get_task and MockBackend.get_task,                 *)
(*   - the Task.get REST handler that merges a poll into the task store,   *)
(*   - the scheduled reaper jobs.cleanup_tasks.                            *)
(* Strings of shell text are modelled as sequences of command records;     *)
(* uuid4() is a nondeterministic draw from a finite pool of identifiers.   *)
(***************************************************************************)
EXTENDS Integers, Sequences, FiniteSets, TLC

(* ----------------------------- bounds --------------------------------- *)
\* number of concurrent createJob calls
NumCalls == 2
\* size of the pool uuid4() draws job ids from
MaxJobIds == 1
\* longest input / output / executor lists of a submitted task
MaxInputs == 1
MaxOutputs == 1
MaxExecutors == 2

None == "None"

Calls == 1..NumCalls
JobIds == 1..MaxJobIds

(* ------------------------- configuration ------------------------------ *)
BATCH_OVERRIDE_POOL_ID == None
BATCH_STORAGE_TMP_CONTAINER_NAME == "batchtmp"
BATCH_STORAGE_FILESHARE_NAME == "batchfiles"

(* --------------------------- pure helpers ----------------------------- *)
\* list comprehension [f(x) for x in s]
Range(s) == {s[i] : i \in DOMAIN s}

\* A path or url is a pair <<directory part, last part>>; the empty string is
\* <<"", "">>.
EmptyStr == <<"", "">>

\* shlex.quote: the argument wrapped so that the shell reads it as one word
shlex_quote(s) == [quoted |-> s]

\* text put into a command line as it is
Raw(s) == [raw |-> s]

\* a command without arguments
Cmd(c) == [cmd |-> c, a |-> Raw(""), b |-> Raw("")]

\* commands.generate_input_download_command
generate_input_download_command(url, path) ==
    [cmd |-> "python /home/ft/cloud-transfer.py -v -d",
     a |-> shlex_quote(url), b |-> shlex_quote(path)]

\* commands.generate_input_download_commands: inputs carrying content are skipped
RECURSIVE generate_input_download_commands_of(_)
generate_input_download_commands_of(inputs) ==
    IF inputs = <<>> THEN <<>>
    ELSE LET input == Head(inputs)
             rest == generate_input_download_commands_of(Tail(inputs))
         IN IF input.content # None THEN rest
            ELSE <<generate_input_download_command(input.url, input.path)>> \o rest

generate_input_download_commands(t) == generate_input_download_commands_of(t.inputs)

\* commands.generate_output_upload_command
generate_output_upload_command(path, url) ==
    [cmd |-> "python /home/ft/cloud-transfer.py -v -u",
     a |-> shlex_quote(path), b |-> shlex_quote(url)]

\* commands.generate_output_upload_commands
generate_output_upload_commands(t) ==
    [i \in 1..Len(t.outputs) |->
        generate_output_upload_command(t.outputs[i].path, t.outputs[i].url)]

\* posixpath.dirname: "" when the path has no directory part
posixpath_dirname(path) == path[1]

\* commands.generate_copy_commands
generate_copy_commands(source, destination) ==
    LET destination_dirname == posixpath_dirname(destination)
        mk == IF destination_dirname # ""
              THEN <<[cmd |-> "mkdir -p", a |-> shlex_quote(destination_dirname),
                      b |-> Raw("")]>>
              ELSE <<>>
    IN mk \o <<[cmd |-> "cp -f", a |-> Raw(source), b |-> shlex_quote(destination)]>>

(* ------------------------- VM sizing selector ------------------------- *)
fallback_cpu_cores == 1
fallback_mem_GiB == 2
fallback_disk_GiB == 10

vms_by_preference == <<
    [sku |-> "Standard_A1_v2",  cpu |-> 1,  mem |-> 2,   disk |-> 10],
    [sku |-> "Standard_A2m_v2", cpu |-> 2,  mem |-> 16,  disk |-> 20],
    [sku |-> "Standard_A2_v2",  cpu |-> 2,  mem |-> 4,   disk |-> 20],
    [sku |-> "Standard_A4m_v2", cpu |-> 4,  mem |-> 32,  disk |-> 40],
    [sku |-> "Standard_A4_v2",  cpu |-> 4,  mem |-> 8,   disk |-> 40],
    [sku |-> "Standard_A8m_v2", cpu |-> 8,  mem |-> 64,  disk |-> 80],
    [sku |-> "Standard_A8_v2",  cpu |-> 8,  mem |-> 16,  disk |-> 80],
    [sku |-> "Standard_D2_v3",  cpu |-> 2,  mem |-> 8,   disk |-> 50],
    [sku |-> "Standard_D4_v3",  cpu |-> 4,  mem |-> 16,  disk |-> 100],
    [sku |-> "Standard_D8_v3",  cpu |-> 8,  mem |-> 32,  disk |-> 200],
    [sku |-> "Standard_D16_v3", cpu |-> 16, mem |-> 64,  disk |-> 400],
    [sku |-> "Standard_D32_v3", cpu |-> 32, mem |-> 128, disk |-> 800],
    [sku |-> "Standard_D64_v3", cpu |-> 64, mem |-> 256, disk |-> 1600],
    [sku |-> "Standard_G1",     cpu |-> 2,  mem |-> 28,  disk |-> 384],
    [sku |-> "Standard_G2",     cpu |-> 4,  mem |-> 56,  disk |-> 768],
    [sku |-> "Standard_G3",     cpu |-> 8,  mem |-> 112, disk |-> 1536],
    [sku |-> "Standard_G4",     cpu |-> 16, mem |-> 224, disk |-> 3072],
    [sku |-> "Standard_G5",     cpu |-> 32, mem |-> 448, disk |-> 6144] >>

\* capacity_GiB >= gb * GbToGib with GbToGib = 1000^3 / 1024^3 = 5^9 / 2^21, in
\* integers: 5^9 = 1907 * 1024 + 357 and 2^21 = 2048 * 1024
GbFitsGiB(capacity_GiB, gb) ==
    gb * 1907 + ((gb * 357 + 1023) \div 1024) <= capacity_GiB * 2048

\* vm[dim] >= (gb * GbToGib or fallback)
MeetsOrFallback(capacity_GiB, gb, fallback_GiB) ==
    IF gb = 0 THEN capacity_GiB >= fallback_GiB ELSE GbFitsGiB(capacity_GiB, gb)

\* a filter that leaves the disk out
VmSatisfies_CpuAndMemOnly(vm, tes_resources) ==
    /\ vm.cpu >= (IF tes_resources.cpu_cores = 0 THEN fallback_cpu_cores
                  ELSE tes_resources.cpu_cores)
    /\ MeetsOrFallback(vm.mem, tes_resources.ram_gb, fallback_mem_GiB)

\* the filter of determine_azure_vm_for_task
VmSatisfies(vm, tes_resources) ==
    /\ vm.cpu >= (IF tes_resources.cpu_cores = 0 THEN fallback_cpu_cores
                  ELSE tes_resources.cpu_cores)
    /\ MeetsOrFallback(vm.mem, tes_resources.ram_gb, fallback_mem_GiB)
    /\ MeetsOrFallback(vm.disk, tes_resources.disk_gb, fallback_disk_GiB)

\* the sku of the first table entry that satisfies the requirement, or the
\* ValueError("No such VM available")
determine_azure_vm_for_task(tes_resources) ==
    LET remaining_vms == SelectSeq(vms_by_preference,
                                   LAMBDA vm : VmSatisfies(vm, tes_resources))
    IN IF remaining_vms # <<>> THEN remaining_vms[1].sku ELSE "ValueError"

(* ----------------------- submitted task shapes ------------------------ *)
\* TesInput: exactly one of url / content is set
InputPool ==
    { [url |-> <<"https://account/samples", "random.dat">>, path |-> <<"", "random.dat">>,
       content |-> None],
      [url |-> EmptyStr, path |-> <<"/tes-wd/shared", "script">>, content |-> "echo OK"] }

TesOutput(i) ==
    [url |-> <<"https://account/samples", "out" \o ToString(i)>>,
     path |-> <<"/tes-wd/shared", "out" \o ToString(i)>>]

\* the i-th executor of a task: even executors redirect their output streams
TesExecutor(i) ==
    [image   |-> "image" \o ToString(i),
     command |-> <<"run", ToString(i)>>,
     stdout  |-> IF i % 2 = 0 THEN <<"/tes-wd/shared/executions", "stdout.txt">> ELSE EmptyStr,
     stderr  |-> IF i % 2 = 0 THEN <<"/tes-wd/shared/executions", "stderr.txt">> ELSE EmptyStr,
     env     |-> IF i % 2 = 0 THEN {<<"foo", "bar">>} ELSE {}]

ResourcePool ==
    { [cpu_cores |-> 0, ram_gb |-> 0, disk_gb |-> 0],
      [cpu_cores |-> 0, ram_gb |-> 0, disk_gb |-> 10000] }

SeqsUpTo(S, n) == UNION { [1..k -> S] : k \in 0..n }

TesTasks ==
    { [inputs |-> ins, outputs |-> [i \in 1..no |-> TesOutput(i)],
       executors |-> [i \in 1..ne |-> TesExecutor(i)], resources |-> r] :
        ins \in SeqsUpTo(InputPool, MaxInputs), no \in 0..MaxOutputs,
        ne \in 0..MaxExecutors, r \in ResourcePool }

VARIABLES
    \* ---- createJob: the submitted task and, per call, the locals of createJob
    task,               \* the TES task the calls submit
    pc,                 \* pc[c]: position of call c in createJob
    job_id,             \* job_id[c]: str(uuid.uuid4())
    existing_job_ids,   \* existing_job_ids[c]: the ids job.list() returned
    job,                \* job[c]: the JobAddParameter under construction
    executor_index,     \* executor_index[c]: position of the executor loop
    result,             \* result[c]: what createJob returned
    calls,              \* calls[c]: the remote calls c has issued, in order
    \* ---- the Batch account, as createJob fills it
    batch_jobs,         \* the JobAddParameters of the jobs the account holds
    batch_tasks,        \* batch_tasks[id]: the tasks added to job id, in order
    \* ---- the server process, the task store and the backend, as polls see them
    compute_backend,    \* config COMPUTE_BACKEND: "batch" or "mock"
    cloud_jobs,         \* cloud_jobs[b]: the CloudJob the Batch account holds under id b
    store,              \* store[t]: the committed TesTask row with id t
    TaskLog_logs,       \* the list object that is the default of TaskLog.__init__'s logs
    polls,              \* number of Task.get requests served
    last_get,           \* the latest backend.get_task call of Task.get and what it gave
    response,           \* the latest HTTP response of Task.get or TaskCancel.post
    last_cancel,        \* the latest backend.cancel_task call of TaskCancel.post
    now,                \* datetime.utcnow(), in hours
    \* ---- the reaper, jobs.cleanup_tasks
    config,             \* TASK_*_HOURS
    reaper_pc,          \* position of the pass
    reaper_tasks,       \* the rows the query of the loop loaded and the loop has yet to visit
    session,            \* session[t]: the state assigned to row t and not yet committed
    reaper_log,         \* backend calls and store operations of the pass, in order
    store_at_start,     \* the store as it was when the pass started
    query_time,         \* query_time[p]: the utcnow() the query of policy p was built with
    \* ---- a second worker running jobs.cleanup_tasks
    other_pass,         \* the locals of the pass of the worker that is not running now
    before_passes,      \* the store and the Batch account before either pass started
    \* ---- the backend selector, backends.ComputeBackend
    config_object,      \* COMPUTE_BACKEND of the config object create_app is given
    app_config,         \* app.config['COMPUTE_BACKEND']
    startup,            \* how create_app ended
    pushed,             \* number of application contexts pushed so far
    ctx_stack,          \* the application contexts that are pushed, the top last
    ctx_compute_backend,\* ctx_compute_backend[c]: the attribute compute_backend of context c
    instances,          \* the backend objects constructed, in order
    accesses,           \* the accesses of ComputeBackend.backend, in order
    \* ---- the provisioning workflow: Provision.post and _worker_provision_start
    KEYVAULT_URL,       \* config KEYVAULT_URL
    trackers,           \* trackers[k]: the committed ProvisionTracker row with id k
    provision_pc,       \* provision_pc[k]: position of the worker of tracker k
    provision_status,   \* provision_status[k]: the ProvisionStatus object of the worker
    cloud_calls,        \* cloud_calls[k]: the cloud calls of the worker and what they gave
    key_vault,          \* key_vault[k]: the secrets the worker has set, in order
    provision_response, \* provision_response[k]: what Provision.post answered
    \* ---- the VM sizing selector applied to one requirement
    task_resources,     \* the TesResources determine_azure_vm_for_task is given
    selected_vm,        \* what determine_azure_vm_for_task returned or raised
    \* ---- the submitter detector applied to one task
    detect_task,        \* the TesTask detect_tags_for_submitter is given
    detect_tags,        \* the dict detect_tags_for_submitter returned
    \* ---- mangle_task_for_submitter on its own
    mangle_task,        \* the task handed to mangle_task_for_submitter
    container_blobs,    \* the blob names the storage container lists
    mangled,            \* the task as the call left it, and the storage calls made
    \* ---- TaskList.post, the creation of tasks
    account_job_ids,    \* the ids of the jobs the Batch account holds
    task_rows,          \* the TesTask rows TaskList.post has saved
    post_log,           \* one record for every TaskList.post request handled
    \* ---- the access check of Task.get and TaskCancel.post
    access_config,      \* AAD_VERIFY and TASK_ACCESS_RESTRICTIONS of the app config
    jwt_claims          \* the tid and sub claims of the caller's token

createVars == <<task, pc, job_id, existing_job_ids, job, executor_index, result, calls,
                batch_jobs, batch_tasks>>

pollVars == <<compute_backend, cloud_jobs, store, TaskLog_logs, polls, last_get, response,
              last_cancel, now>>

reaperVars == <<config, reaper_pc, reaper_tasks, session, reaper_log, store_at_start,
               query_time>>

raceVars == <<other_pass, before_passes>>

selectorVars == <<config_object, app_config, startup, pushed, ctx_stack,
                  ctx_compute_backend, instances, accesses>>

provisionVars == <<KEYVAULT_URL, trackers, provision_pc, provision_status, cloud_calls,
                   key_vault, provision_response>>

sizingVars == <<task_resources, selected_vm>>

detectVars == <<detect_task, detect_tags>>

mangleVars == <<mangle_task, container_blobs, mangled>>

submitVars == <<account_job_ids, task_rows, post_log>>

aclVars == <<access_config, jwt_claims>>

vars == <<task, pc, job_id, existing_job_ids, job, executor_index, result, calls,
          batch_jobs, batch_tasks,
          compute_backend, cloud_jobs, store, TaskLog_logs, polls, last_get, response,
          last_cancel, now,
          config, reaper_pc, reaper_tasks, session, reaper_log, store_at_start,
          query_time, other_pass, before_passes,
          config_object, app_config, startup, pushed, ctx_stack, ctx_compute_backend,
          instances, accesses,
          KEYVAULT_URL, trackers, provision_pc, provision_status, cloud_calls,
          key_vault, provision_response,
          task_resources, selected_vm,
          detect_task, detect_tags,
          mangle_task, container_blobs, mangled,
          account_job_ids, task_rows, post_log,
          access_config, jwt_claims>>

(* ------------------ AzureBatchEngine.createJob ------------------------ *)
\* a remote call, as the client library sees it: the operation and the number
\* that identifies its argument (a job id, the position of an input or executor)
Call(op, arg) == [op |-> op, arg |-> arg]

\* the existence check answering "not there" whatever the list holds
JobIdExists_NeverFound(id, existing) == FALSE

\* job_id in existing_job_ids
JobIdExists(id, existing) == id \in existing

\* the blob url of an input passed as content: a fresh blob of the scratch container,
\* readable for one hour
TmpBlobUrl(c, i) ==
    <<BATCH_STORAGE_TMP_CONTAINER_NAME,
      "blob" \o ToString(c) \o "-" \o ToString(i) \o "?sas=READ,1h">>

\* the storage calls of one content input: arg is the position of the input
ContentInputCalls(c, i, input) ==
    << Call("create_blob_from_text", i),
       Call("generate_blob_shared_access_signature", i),
       Call("make_blob_url", i) >>

\* the loop over task.inputs: [calls, commands] of the inputs from position i on
RECURSIVE UploadContentInputs(_, _, _)
UploadContentInputs(c, inputs, i) ==
    IF i > Len(inputs) THEN [calls |-> <<>>, commands |-> <<>>]
    ELSE LET rest == UploadContentInputs(c, inputs, i + 1)
         IN IF inputs[i].content = None THEN rest
            ELSE [calls |-> ContentInputCalls(c, i, inputs[i]) \o rest.calls,
                  commands |-> <<generate_input_download_command(TmpBlobUrl(c, i),
                                                                 inputs[i].path)>>
                               \o rest.commands]

\* pool_info: the configured pool, or an auto-pool that lives as long as the job
PoolInformation(vm_size) ==
    IF BATCH_OVERRIDE_POOL_ID # None
    THEN [pool_id |-> BATCH_OVERRIDE_POOL_ID, auto_pool_specification |-> None]
    ELSE [pool_id |-> None, auto_pool_specification |-> vm_size]

\* ';'.join(download_commands) if download_commands else 'true'
download_commands_shell(download_commands) ==
    IF download_commands # <<>> THEN download_commands ELSE <<Cmd("true")>>

\* job.job_preparation_task: always attached
JobPreparationTask(download_commands) ==
    [image_name |-> "tesazure.azurecr.io/tesazure/container-filetransfer",
     command_line |-> <<Cmd("set -e"), Cmd("set -o pipefail"), Cmd("mkdir -p /tes-wd/shared")>>
                      \o download_commands_shell(download_commands) \o <<Cmd("wait")>>]

\* a release task attached whether or not there is anything to upload
JobReleaseTask_Always(upload_commands) ==
    [image_name |-> "tesazure.azurecr.io/tesazure/container-filetransfer",
     command_line |-> <<Cmd("set -e"), Cmd("set -o pipefail")>>
                      \o upload_commands \o <<Cmd("wait")>>]

\* job.job_release_task: attached only if there are upload commands
JobReleaseTask(upload_commands) ==
    IF upload_commands # <<>>
    THEN [image_name |-> "tesazure.azurecr.io/tesazure/container-filetransfer",
          command_line |-> <<Cmd("set -e"), Cmd("set -o pipefail")>>
                           \o upload_commands \o <<Cmd("wait")>>]
    ELSE [image_name |-> None, command_line |-> <<>>]

\* whether a job carries the task
Attached(t) == t.image_name # None

JobAddParameter(id, pool_info, download_commands, upload_commands) ==
    [id |-> id, pool_info |-> pool_info,
     job_preparation_task |-> JobPreparationTask(download_commands),
     job_release_task |-> JobReleaseTask(upload_commands)]

\* the TaskAddParameter of one executor; the copy of stdout goes to executor.stderr,
\* as in the source
TaskAddParameter(executor) ==
    LET commands ==
            <<[cmd |-> "run", a |-> Raw(executor.command[1]), b |-> Raw(executor.command[2])]>>
            \o (IF executor.stdout # EmptyStr
                THEN generate_copy_commands("/tes-wd/$AZ_BATCH_TASK_ID/stdout.txt",
                                            executor.stderr)
                ELSE <<>>)
            \o (IF executor.stderr # EmptyStr
                THEN generate_copy_commands("/tes-wd/$AZ_BATCH_TASK_ID/stderr.txt",
                                            executor.stderr)
                ELSE <<>>)
    IN [environment_settings |-> executor.env,
        command_line |-> <<Cmd("set -e")>> \o commands \o <<Cmd("wait")>>,
        image_name |-> executor.image]

\* the loop leaving one executor early
ExecutorLoopDone_OffByOne(i, executors) == i >= Len(executors)

\* the loop over task.executors has passed the last executor
ExecutorLoopDone(i, executors) == i > Len(executors)

NoJob == [id |-> 0]

\* what createJob returned: nothing yet, False, or the job id
NotReturned == [kind |-> "none", id |-> 0]
ReturnedFalse == [kind |-> "False", id |-> 0]
ReturnedId(id) == [kind |-> "id", id |-> id]

(* ------------------- values shared by polls and reaper ---------------- *)
\* a datetime, and the str default "" that stands where no datetime was set
Datetime(n) == [datetime |-> n]
EmptyTime == [str |-> ""]

\* what backend.get_task gave: nothing yet, False, an exception, or a TesTask
BackendNone == [kind |-> "none"]
BackendFalse == [kind |-> "False"]
BackendRaised(code) == [kind |-> "raised", error |-> code]

\* no backend.get_task call yet
NoGet == [called |-> FALSE, task_id |-> 0, known |-> FALSE, job_state |-> None,
          n_tasks |-> 0, fault |-> "none", failing |-> {}, result |-> BackendNone]

\* no backend.cancel_task call yet
NoCancel == [called |-> FALSE, task_id |-> 0, known |-> FALSE, fault |-> "none",
             result |-> BackendNone, calls |-> <<>>]

\* no Task.get request yet
NoResponse == [task_id |-> 0, code |-> 0, body |-> [kind |-> "none"]]

\* config.py: TASK_BACKEND_CLEANUP_HOURS, TASK_DATABASE_CLEANUP_HOURS and
\* TASK_EXECUTION_TIMEOUT_HOURS, on a clock that counts in units of twelve hours
base_config == [TASK_BACKEND_CLEANUP_HOURS |-> 2, TASK_DATABASE_CLEANUP_HOURS |-> 4,
                TASK_EXECUTION_TIMEOUT_HOURS |-> 1]

\* no poll has been served and nothing is stored
PollIdle ==
    /\ compute_backend = "batch"
    /\ cloud_jobs = <<>>
    /\ store = <<>>
    /\ TaskLog_logs = <<>>
    /\ polls = 0
    /\ last_get = NoGet
    /\ last_cancel = NoCancel
    /\ response = NoResponse
    /\ now = 0

\* no query of a pass has been built
NoQueries == [p \in {"backend", "database", "orphans"} |-> 0]

\* a configuration key that is not set, and one set to value v
Unset == [set |-> FALSE, value |-> ""]
Set(v) == [set |-> TRUE, value |-> v]

\* no application has been created
SelectorIdle ==
    /\ config_object = Set("mock")
    /\ app_config = Unset
    /\ startup = "not_started"
    /\ pushed = 0
    /\ ctx_stack = <<>>
    /\ ctx_compute_backend = <<>>
    /\ instances = <<>>
    /\ accesses = <<>>

\* the provisioning requests a run posts
MaxProvisions == 2
Provisions == 1..MaxProvisions

\* models.py 358-360: the status_json "" of a tracker no status was written to
EmptyStatusJson ==
    [status |-> "", error_message |-> "", storage_account_name |-> "",
     storage_account_key |-> "", batch_account_name |-> "", batch_account_url |-> "",
     batch_account_key |-> ""]

\* batch/models.py 97-110: ProvisionStatus()
ProvisionStatus ==
    [status |-> "UNKNOWN", error_message |-> "", storage_account_name |-> "",
     storage_account_key |-> "", batch_account_name |-> "", batch_account_url |-> "",
     batch_account_key |-> ""]

\* no provisioning request was posted
ProvisionIdle ==
    /\ KEYVAULT_URL = Unset
    /\ trackers = <<>>
    /\ provision_pc = [k \in Provisions |-> "not_posted"]
    /\ provision_status = [k \in Provisions |-> ProvisionStatus]
    /\ cloud_calls = [k \in Provisions |-> <<>>]
    /\ key_vault = [k \in Provisions |-> <<>>]
    /\ provision_response = [k \in Provisions |-> 0]

\* determine_azure_vm_for_task has not been called
NotSized == "not_called"
SizingIdle ==
    /\ task_resources = [cpu_cores |-> 0, ram_gb |-> 0, disk_gb |-> 0]
    /\ selected_vm = NotSized

\* detect_tags_for_submitter has not been called. A dict is the set of its items
NotDetected == {<<"not_called", "">>}
DetectIdle ==
    /\ detect_task = [description |-> <<"">>, outputs |-> <<>>]
    /\ detect_tags = NotDetected

\* mangle_task_for_submitter has not been called
NotMangled == [called |-> FALSE, inputs |-> <<>>, outputs |-> <<>>, storage_calls |-> <<>>]
MangleIdle ==
    /\ mangle_task = [tags |-> {}, inputs |-> <<>>, outputs |-> <<>>]
    /\ container_blobs = <<>>
    /\ mangled = NotMangled

\* TaskList.post has not been called
SubmitIdle ==
    /\ account_job_ids = {}
    /\ task_rows = <<>>
    /\ post_log = <<>>

\* config.py: no identity check, no access restriction
AAD_VERIFY == FALSE
TASK_ACCESS_RESTRICTIONS == None

\* the tenants and users a stored task may belong to, and the caller's token
Tenants == {"tenant-a", "tenant-b"}
Users == {"user-a", "user-b"}
Caller == [tid |-> "tenant-a", sub |-> "user-a"]

\* the access configuration of config.py, and a request without a token
NoClaims == [tid |-> None, sub |-> None]
AclIdle ==
    /\ access_config = [AAD_VERIFY |-> AAD_VERIFY,
                        TASK_ACCESS_RESTRICTIONS |-> TASK_ACCESS_RESTRICTIONS]
    /\ jwt_claims = NoClaims

\* the locals of a pass that has not started
IdlePass ==
    [reaper_pc |-> "idle", reaper_tasks |-> <<>>, session |-> <<>>, reaper_log |-> <<>>,
     store_at_start |-> <<>>, query_time |-> NoQueries]

\* no snapshot taken
NoSnapshot == [store |-> <<>>, cloud_jobs |-> <<>>]

\* no reaper pass has started
ReaperIdle ==
    /\ config = base_config
    /\ reaper_pc = "idle"
    /\ reaper_tasks = <<>>
    /\ session = <<>>
    /\ reaper_log = <<>>
    /\ store_at_start = <<>>
    /\ query_time = NoQueries
    /\ other_pass = IdlePass
    /\ before_passes = NoSnapshot

InitCreate ==
    /\ PollIdle
    /\ ReaperIdle
    /\ SelectorIdle
    /\ ProvisionIdle
    /\ SizingIdle
    /\ DetectIdle
    /\ MangleIdle
    /\ SubmitIdle
    /\ AclIdle
    /\ task \in TesTasks
    /\ pc = [c \in Calls |-> "start"]
    /\ job_id = [c \in Calls |-> 0]
    /\ existing_job_ids = [c \in Calls |-> {}]
    /\ job = [c \in Calls |-> NoJob]
    /\ executor_index = [c \in Calls |-> 0]
    /\ result = [c \in Calls |-> NotReturned]
    /\ calls = [c \in Calls |-> <<>>]
    /\ batch_jobs = {}
    /\ batch_tasks = [id \in JobIds |-> <<>>]

\* lines 153-157: draw the job id, list the jobs, stop if the id is taken
CreateJob_Check(c) ==
    /\ pc[c] = "start"
    /\ \E id \in JobIds :
         LET existing == {j.id : j \in batch_jobs}
         IN /\ job_id' = [job_id EXCEPT ![c] = id]
            /\ existing_job_ids' = [existing_job_ids EXCEPT ![c] = existing]
            /\ calls' = [calls EXCEPT ![c] = Append(@, Call("job.list", 0))]
            /\ IF JobIdExists(id, existing)
               THEN /\ result' = [result EXCEPT ![c] = ReturnedFalse]
                    /\ pc' = [pc EXCEPT ![c] = "returned"]
               ELSE /\ pc' = [pc EXCEPT ![c] = "marshal"]
                    /\ UNCHANGED result
    /\ UNCHANGED <<task, job, executor_index, batch_jobs, batch_tasks>>
    /\ UNCHANGED <<pollVars, reaperVars, raceVars, selectorVars, provisionVars, sizingVars,
                   detectVars, mangleVars, submitVars, aclVars>>

\* lines 162-242: commands, scratch container and blobs, VM size, pool, job parameter
CreateJob_Marshal(c) ==
    /\ pc[c] = "marshal"
    /\ LET uploaded == UploadContentInputs(c, task.inputs, 1)
           download_commands == generate_input_download_commands(task) \o uploaded.commands
           upload_commands == generate_output_upload_commands(task)
           vm_size == determine_azure_vm_for_task(task.resources)
           storage_calls == <<Call("create_container", 0)>>
                            \o uploaded.calls
       IN IF vm_size = "ValueError"
          THEN /\ calls' = [calls EXCEPT ![c] = @ \o storage_calls]
               /\ pc' = [pc EXCEPT ![c] = "raised"]
               /\ UNCHANGED job
          ELSE /\ calls' = [calls EXCEPT ![c] =
                               @ \o storage_calls
                                 \o (IF BATCH_OVERRIDE_POOL_ID = None
                                        /\ BATCH_STORAGE_FILESHARE_NAME # None
                                     THEN <<Call("create_share", 0)>>
                                     ELSE <<>>)]
               /\ job' = [job EXCEPT ![c] =
                             JobAddParameter(job_id[c], PoolInformation(vm_size),
                                             download_commands, upload_commands)]
               /\ pc' = [pc EXCEPT ![c] = "job_add"]
    /\ UNCHANGED <<task, job_id, existing_job_ids, executor_index, result, batch_jobs,
                   batch_tasks>>
    /\ UNCHANGED <<pollVars, reaperVars, raceVars, selectorVars, provisionVars, sizingVars,
                   detectVars, mangleVars, submitVars, aclVars>>

\* lines 244-245: job.add; a BatchErrorException is logged and raised again. The
\* account refuses a job whose id it already holds.
CreateJob_JobAdd(c) ==
    /\ pc[c] = "job_add"
    /\ calls' = [calls EXCEPT ![c] = Append(@, Call("job.add", job[c].id))]
    /\ \E fault \in BOOLEAN :
         IF fault \/ job[c].id \in {j.id : j \in batch_jobs}
         THEN /\ pc' = [pc EXCEPT ![c] = "raised"]
              /\ UNCHANGED <<batch_jobs, executor_index>>
         ELSE /\ batch_jobs' = batch_jobs \cup {job[c]}
              /\ executor_index' = [executor_index EXCEPT ![c] = 1]
              /\ pc' = [pc EXCEPT ![c] = "task_add"]
    /\ UNCHANGED <<task, job_id, existing_job_ids, job, result, batch_tasks>>
    /\ UNCHANGED <<pollVars, reaperVars, raceVars, selectorVars, provisionVars, sizingVars,
                   detectVars, mangleVars, submitVars, aclVars>>

\* a round of the loop that deletes the tasks added so far when task.add fails
CreateJob_TaskAdd_RollsBack(c) ==
    /\ pc[c] = "task_add"
    /\ ~ExecutorLoopDone(executor_index[c], task.executors)
    /\ LET t == TaskAddParameter(task.executors[executor_index[c]])
       IN /\ calls' = [calls EXCEPT ![c] =
                          Append(@, Call("task.add", executor_index[c]))]
          /\ \E fault \in BOOLEAN :
               IF fault
               THEN /\ pc' = [pc EXCEPT ![c] = "raised"]
                    /\ batch_tasks' = [batch_tasks EXCEPT ![job_id[c]] = <<>>]
                    /\ UNCHANGED executor_index
               ELSE /\ batch_tasks' = [batch_tasks EXCEPT ![job_id[c]] = Append(@, t)]
                    /\ executor_index' = [executor_index EXCEPT ![c] = @ + 1]
                    /\ UNCHANGED pc
    /\ UNCHANGED <<task, job_id, existing_job_ids, job, result, batch_jobs>>
    /\ UNCHANGED <<pollVars, reaperVars, raceVars, selectorVars, provisionVars, sizingVars,
                   detectVars, mangleVars, submitVars, aclVars>>

\* lines 247-271: one round of the loop over the executors; task.add is not guarded
CreateJob_TaskAdd(c) ==
    /\ pc[c] = "task_add"
    /\ ~ExecutorLoopDone(executor_index[c], task.executors)
    /\ LET t == TaskAddParameter(task.executors[executor_index[c]])
       IN /\ calls' = [calls EXCEPT ![c] =
                          Append(@, Call("task.add", executor_index[c]))]
          /\ \E fault \in BOOLEAN :
               IF fault
               THEN /\ pc' = [pc EXCEPT ![c] = "raised"]
                    /\ UNCHANGED <<batch_tasks, executor_index>>
               ELSE /\ batch_tasks' = [batch_tasks EXCEPT ![job_id[c]] = Append(@, t)]
                    /\ executor_index' = [executor_index EXCEPT ![c] = @ + 1]
                    /\ UNCHANGED pc
    /\ UNCHANGED <<task, job_id, existing_job_ids, job, result, batch_jobs>>
    /\ UNCHANGED <<pollVars, reaperVars, raceVars, selectorVars, provisionVars, sizingVars,
                   detectVars, mangleVars, submitVars, aclVars>>

\* line 273: return job_id
CreateJob_Return(c) ==
    /\ pc[c] = "task_add"
    /\ ExecutorLoopDone(executor_index[c], task.executors)
    /\ result' = [result EXCEPT ![c] = ReturnedId(job_id[c])]
    /\ pc' = [pc EXCEPT ![c] = "returned"]
    /\ UNCHANGED <<task, job_id, existing_job_ids, job, executor_index, calls, batch_jobs,
                   batch_tasks>>
    /\ UNCHANGED <<pollVars, reaperVars, raceVars, selectorVars, provisionVars, sizingVars,
                   detectVars, mangleVars, submitVars, aclVars>>

NextCreate ==
    \E c \in Calls :
        \/ CreateJob_Check(c)
        \/ CreateJob_Marshal(c)
        \/ CreateJob_JobAdd(c)
        \/ CreateJob_TaskAdd(c)
        \/ CreateJob_Return(c)

Spec == InitCreate /\ [][NextCreate]_vars

(* ---------------------- properties of createJob ----------------------- *)
\* call c has passed the existence check and has not yet left createJob
Constructing(c) == pc[c] \in {"marshal", "job_add", "task_add"}

\* the ops of the calls c has issued, in order
OpsOf(c) == [k \in DOMAIN calls[c] |-> calls[c][k].op]

\* the job.add and task.add calls of c, in order
AddsOf(c) == SelectSeq(calls[c], LAMBDA k : k.op \in {"job.add", "task.add"})

\* C1: at most one construction of a job is in progress at a time: no two calls
\* are both between their existence check and their return with the same job id.
C1_AtMostOneConstruction ==
    \A c, d \in Calls :
        (c # d /\ Constructing(c) /\ Constructing(d)) => job_id[c] # job_id[d]

\* C2: when the fresh job id is in the job list, createJob returns False and has
\* issued nothing but the job.list call: no job.add, no task.add, no create_container
\* and no blob upload.
C2_CollisionAborts ==
    \A c \in Calls :
        (pc[c] # "start" /\ job_id[c] \in existing_job_ids[c]) =>
            /\ pc[c] = "returned"
            /\ result[c] = ReturnedFalse
            /\ OpsOf(c) = <<"job.list">>

\* a call found its fresh id in the job list
C2_Witness ==
    \E c \in Calls : pc[c] = "returned" /\ job_id[c] \in existing_job_ids[c]

\* C3: a createJob that returned a job id for a task with N executors has issued
\* exactly one job.add, then exactly N task.add, one per executor in executor order,
\* all against the returned id.
C3_OneJobAddThenTaskAdds ==
    \A c \in Calls :
        (pc[c] = "returned" /\ result[c].kind = "id") =>
            LET adds == AddsOf(c)
                N == Len(task.executors)
            IN /\ Len(adds) = N + 1
               /\ adds[1].op = "job.add"
               /\ adds[1].arg = result[c].id
               /\ \A i \in 1..N :
                    /\ adds[i + 1].op = "task.add"
                    /\ adds[i + 1].arg = i
               /\ batch_tasks[result[c].id] =
                      [i \in 1..N |-> TaskAddParameter(task.executors[i])]

\* a task with two executors was created
C3_Witness ==
    \E c \in Calls :
        pc[c] = "returned" /\ result[c].kind = "id" /\ Len(task.executors) = 2

\* the download part of a preparation task's command line
DownloadPart(prep) == SubSeq(prep.command_line, 4, Len(prep.command_line) - 1)

MaxPolls == 2
\* longest task list of a Batch job
MaxBatchTasks == 2
\* number of rows the task store can hold
NumStoredTasks == 2

StoreIds == 1..NumStoredTasks


\* models.ExecutorLog and models.TaskLog, as objects in memory
ExecutorLog(exit_code, start_time, end_time, stdout, stderr) ==
    [exit_code |-> exit_code, start_time |-> start_time, end_time |-> end_time,
     stdout |-> stdout, stderr |-> stderr]

\* TaskLog(): logs is the default list object itself, not a copy of it
TaskLog(logs) ==
    [logs |-> logs, start_time |-> EmptyTime, end_time |-> EmptyTime, outputs |-> <<>>]

\* TesResources(): the defaults
TesResources == [cpu_cores |-> 0, preemptible |-> TRUE, ram_gb |-> 0, disk_gb |-> 0]

\* fields.Str() on a str or on a datetime: the text of the value
Str(v) == IF "str" \in DOMAIN v THEN v.str ELSE "T" \o ToString(v.datetime)

\* ExecutorLogSchema, dump and load
ExecutorLogSchema_dump(l) ==
    [exit_code |-> l.exit_code, start_time |-> Str(l.start_time),
     end_time |-> Str(l.end_time), stdout |-> l.stdout, stderr |-> l.stderr]

ExecutorLogSchema_load(d) ==
    ExecutorLog(d.exit_code, [str |-> d.start_time], [str |-> d.end_time],
                d.stdout, d.stderr)

\* TaskLogSchema, dump and load, of the fields the model keeps
TaskLogSchema_dump(tl) ==
    [logs |-> [i \in DOMAIN tl.logs |-> ExecutorLogSchema_dump(tl.logs[i])],
     start_time |-> Str(tl.start_time), end_time |-> Str(tl.end_time),
     outputs |-> tl.outputs]

TaskLogSchema_load(d) ==
    [logs |-> [i \in DOMAIN d.logs |-> ExecutorLogSchema_load(d.logs[i])],
     start_time |-> [str |-> d.start_time], end_time |-> [str |-> d.end_time],
     outputs |-> d.outputs]

\* TesTask.logs, setter and getter: the list is kept as its dump in task_json
logs_setter(value) == [i \in DOMAIN value |-> TaskLogSchema_dump(value[i])]
logs_getter(task_json_logs) ==
    [i \in DOMAIN task_json_logs |-> TaskLogSchema_load(task_json_logs[i])]

\* the TesTask a backend's get_task returns: a fresh TesTask() with state,
\* creation_time and logs assigned; fetches lists the file.get_from_task calls made
BackendTask(state, creation_time, task_logs, fetches) ==
    [kind |-> "task", state |-> state, creation_time |-> creation_time,
     resources |-> TesResources, executors |-> <<>>, name |-> "",
     logs |-> logs_setter(task_logs), fetches |-> fetches]

(* ---- the Batch account, as get_task reads it ---- *)
Files == {"stdout.txt", "stderr.txt"}

\* execution_info of a preparation or release task on one node
NoExecutionInfo == [present |-> FALSE, result |-> None, state |-> None]
ExecutionInfo(res, st) == [present |-> TRUE, result |-> res, state |-> st]

\* execution_info of a task that has run: it succeeded, failed by its own fault, or
\* failed on the platform
TaskOutcomes ==
    { [result |-> "success", category |-> None, exit_code |-> 0],
      [result |-> "failure", category |-> "usererror", exit_code |-> 1],
      [result |-> "failure", category |-> "servererror", exit_code |-> 1] }

\* data.decode('utf-8') of a chunk of bytes
decode(data) == data.bytes

\* a CloudTask and the files of its working directory, in chunks
CloudTask(outcome) ==
    [result |-> outcome.result, category |-> outcome.category,
     exit_code |-> outcome.exit_code,
     creation_time |-> Datetime(0), state_transition_time |-> Datetime(1),
     files |-> [f \in Files |->
                  IF f = "stdout.txt" THEN <<[bytes |-> "o"], [bytes |-> "ut"]>>
                  ELSE <<[bytes |-> "err"]>>]]

\* a CloudJob: createJob always attaches a preparation task; the nodes report on
\* it once the job has left active
CloudJob(id, state, outcomes) ==
    [id |-> id, state |-> state,
     creation_time |-> Datetime(0), state_transition_time |-> Datetime(2),
     job_preparation_task |-> TRUE, job_release_task |-> FALSE,
     prep_release_status |->
         IF state = "active" THEN <<>>
         ELSE <<[prep |-> ExecutionInfo("success", "completed"),
                 release |-> NoExecutionInfo]>>,
     task_counts |->
         [failed |-> Cardinality({i \in DOMAIN outcomes : outcomes[i].result = "failure"}),
          running |-> 0,
          active |-> 0],
     tasks |-> [i \in DOMAIN outcomes |-> CloudTask(outcomes[i])]]

\* the jobs polls meet under id b
PollJobs(b) ==
    { CloudJob(b, st, outcomes) :
        st \in {"active", "completed"}, outcomes \in SeqsUpTo(TaskOutcomes, MaxBatchTasks) }

\* batch_client.job.get: the error code of the BatchErrorException, or "ok"
job_get(jobs, task_id, fault) ==
    IF fault # "none" THEN fault
    ELSE IF task_id \notin DOMAIN jobs THEN "JobNotFound" ELSE "ok"

\* faults of the job lookup other than an unknown id
JobGetFaults == {"none", "OperationTimedOut"}

\* an except clause that answers False to every BatchErrorException
IsJobNotFound_AnyError(code) == TRUE

\* lines 283-286: only JobNotFound is answered with False
IsJobNotFound(code) == code = "JobNotFound"

\* state_map with 'terminating' read as a cancellation
state_map_TerminatingCanceled(job_state) ==
    CASE job_state = "active" -> "QUEUED"
      [] job_state = "completed" -> "COMPLETE"
      [] job_state \in {"deleting", "terminating"} -> "CANCELED"
      [] job_state \in {"disabled", "disabling", "enabling"} -> "PAUSED"
      [] OTHER -> "UNKNOWN"

\* lines 298-307
state_map(job_state) ==
    CASE job_state = "active" -> "QUEUED"
      [] job_state = "completed" -> "COMPLETE"
      [] job_state = "deleting" -> "CANCELED"
      [] job_state \in {"disabled", "disabling", "enabling"} -> "PAUSED"
      [] job_state = "terminating" -> "RUNNING"
      [] OTHER -> "UNKNOWN"

\* lines 311-326: the loop over the preparation and release status of the nodes;
\* line 317 reads .state of the preparation info outside the test that it is there
RECURSIVE PrepReleaseState(_, _)
PrepReleaseState(infos, state) ==
    IF infos = <<>> THEN state
    ELSE LET task_info == Head(infos)
             s1 == IF task_info.prep.present /\ task_info.prep.result = "failure"
                   THEN "SYSTEM_ERROR" ELSE state
         IN IF ~task_info.prep.present THEN "AttributeError"
            ELSE LET s2 == IF task_info.prep.state = "running" THEN "INITIALIZING" ELSE s1
                     s3 == IF task_info.release.present
                              /\ task_info.release.result = "failure"
                           THEN "SYSTEM_ERROR" ELSE s2
                     s4 == IF task_info.release.present
                              /\ task_info.release.state = "running"
                           THEN "RUNNING" ELSE s3
                 IN PrepReleaseState(Tail(infos), s4)

\* lines 329-334
TaskCountsState(task_status, state) ==
    IF state # "UNKNOWN" THEN state
    ELSE IF task_status.failed # 0 THEN "EXECUTOR_ERROR"
    ELSE IF task_status.running = 0 /\ task_status.active > 0 THEN "QUEUED"
    ELSE state

\* the text of a file; a failing fetch raises before the first chunk
RECURSIVE FileText(_)
FileText(chunks) ==
    IF chunks = <<>> THEN "" ELSE decode(Head(chunks)) \o FileText(Tail(chunks))

\* lines 337-359: the loop over the tasks of the job, from position i on.
\* job_state is batch_job.state, which line 341 overwrites on a server error;
\* failing are the fetches that raise a BatchErrorException, which is swallowed.
RECURSIVE ExecutorLogs(_, _, _, _)
ExecutorLogs(tasks, i, job_state, failing) ==
    IF i > Len(tasks) THEN [logs |-> <<>>, fetches |-> <<>>]
    ELSE LET batch_task == tasks[i]
             batch_job_state ==
                 IF batch_task.result = "failure" /\ batch_task.category = "servererror"
                 THEN "SYSTEM_ERROR" ELSE job_state
             fetch == batch_job_state = "completed"
             text(f) == IF fetch /\ <<i, f>> \notin failing
                        THEN FileText(batch_task.files[f]) ELSE ""
             executor_log == ExecutorLog(batch_task.exit_code, batch_task.creation_time,
                                         batch_task.state_transition_time,
                                         text("stdout.txt"), text("stderr.txt"))
             rest == ExecutorLogs(tasks, i + 1, batch_job_state, failing)
         IN [logs |-> <<executor_log>> \o rest.logs,
             fetches |-> (IF fetch THEN << <<i, "stdout.txt">>, <<i, "stderr.txt">> >>
                          ELSE <<>>) \o rest.fetches]

\* AzureBatchEngine.get_task; default_logs is what TaskLog() starts from
AzureBatchEngine_get_task(jobs, task_id, fault, failing, default_logs) ==
    LET code == job_get(jobs, task_id, fault)
    IN IF code # "ok"
       THEN (IF IsJobNotFound(code) THEN BackendFalse ELSE BackendRaised(code))
       ELSE LET batch_job == jobs[task_id]
                tes_log == [TaskLog(default_logs) EXCEPT
                               !.start_time = batch_job.creation_time,
                               !.end_time = IF batch_job.state = "completed"
                                            THEN batch_job.state_transition_time
                                            ELSE EmptyTime]
                s0 == state_map(batch_job.state)
                s1 == IF batch_job.job_preparation_task \/ batch_job.job_release_task
                      THEN PrepReleaseState(batch_job.prep_release_status, s0)
                      ELSE s0
            IN IF s1 = "AttributeError" THEN BackendRaised("AttributeError")
               ELSE LET loop == ExecutorLogs(batch_job.tasks, 1, batch_job.state, failing)
                    IN BackendTask(TaskCountsState(batch_job.task_counts, s1),
                                   batch_job.creation_time,
                                   <<[tes_log EXCEPT !.logs = @ \o loop.logs]>>,
                                   loop.fetches)

\* MockBackend.get_task at time t: [result, logs], logs being the default list of
\* TaskLog afterwards. tes_log.logs += [executor_log] extends the list in place, and
\* the list is the default object.
MockBackend_get_task(task_id, default_logs, t) ==
    LET executor_log == ExecutorLog(-1, Datetime(t), Datetime(t), "out", "err")
        logs == default_logs \o <<executor_log>>
        tes_log == [TaskLog(logs) EXCEPT !.start_time = Datetime(t)]
    IN [result |-> BackendTask("COMPLETE", Datetime(t), <<tes_log>>, <<>>),
        logs |-> logs]

\* compute_backend.backend.get_task: [result, logs]
backend_get_task(backend, jobs, task_id, fault, failing, default_logs, t) ==
    IF backend = "mock" THEN MockBackend_get_task(task_id, default_logs, t)
    ELSE [result |-> AzureBatchEngine_get_task(jobs, task_id, fault, failing, default_logs),
          logs |-> default_logs]

\* the faults a get_task call can meet: of the job lookup, and of at most one fetch
LookupFaults(backend) == IF backend = "batch" THEN JobGetFaults ELSE {"none"}
FetchFaults(backend, jobs, task_id) ==
    IF backend = "batch" /\ task_id \in DOMAIN jobs
    THEN {{}} \cup { {<<i, f>>} : i \in DOMAIN jobs[task_id].tasks, f \in Files }
    ELSE {{}}

\* the record of a get_task call
GetRecord(jobs, task_id, fault, failing, res) ==
    [called |-> TRUE, task_id |-> task_id, known |-> task_id \in DOMAIN jobs,
     job_state |-> IF task_id \in DOMAIN jobs THEN jobs[task_id].state ELSE None,
     n_tasks |-> IF task_id \in DOMAIN jobs THEN Len(jobs[task_id].tasks) ELSE 0,
     fault |-> fault, failing |-> failing, result |-> res]

(* ---- the task store and Task.get ---- *)
\* a TesTask row
StoredTask(backend_id, state, updated_ts) ==
    [backend_id |-> backend_id, tenant_id |-> None, user_id |-> None,
     state |-> state, created_ts |-> Datetime(0), updated_ts |-> updated_ts,
     resources |-> [cpu_cores |-> 4, preemptible |-> FALSE, ram_gb |-> 8, disk_gb |-> 0],
     executors |-> <<"executor">>, name |-> "task", logs |-> <<>>]

\* TesTaskSchema._declared_fields, in order
declared_fields ==
    <<"resources", "executors", "id", "tenant_id", "user_id", "backend_id", "state",
      "name", "description", "inputs", "outputs", "tags", "logs", "creation_time">>

\* bool(getattr(backend_task, field_name)) for the TesTask a get_task returned: an
\* object, an enum member and a datetime are true; "", [], {} and None are false
field_truthy(backend_task, field_name) ==
    CASE field_name \in {"resources", "state", "creation_time"} -> TRUE
      [] field_name = "executors" -> backend_task.executors # <<>>
      [] field_name = "name" -> backend_task.name # ""
      [] field_name = "logs" -> backend_task.logs # <<>>
      [] OTHER -> FALSE

\* lines 134-137: the fields of the row the merge assigns
MergedFields(backend_task) ==
    { declared_fields[k] : k \in { j \in DOMAIN declared_fields :
                                      field_truthy(backend_task, declared_fields[j]) } }

\* lines 134-137: the row after the loop over the declared fields
Merge(row, backend_task) ==
    LET m == MergedFields(backend_task)
    IN [row EXCEPT
          !.resources = IF "resources" \in m THEN backend_task.resources ELSE @,
          !.executors = IF "executors" \in m THEN backend_task.executors ELSE @,
          !.state = IF "state" \in m THEN backend_task.state ELSE @,
          !.name = IF "name" \in m THEN backend_task.name ELSE @,
          !.logs = IF "logs" \in m THEN logs_setter(logs_getter(backend_task.logs)) ELSE @,
          !.created_ts = IF "creation_time" \in m THEN backend_task.creation_time ELSE @]

\* CRUDMixin.save at time t: the row is committed, and stamped by onupdate
CRUDMixin_save(row, t) == [row EXCEPT !.updated_ts = t]

\* CRUDMixin.delete: the row leaves the store at once
CRUDMixin_delete(rows, id) == [x \in DOMAIN rows \ {id} |-> rows[x]]

\* lines 134-138: the merge, then task.save()
MergeAndSave(row, backend_task, t) == CRUDMixin_save(Merge(row, backend_task), t)

\* lines 114-124 (and 151-161) without the per-user test (mutant)
Forbidden_TenantOnly(row) ==
    IF access_config.AAD_VERIFY
    THEN /\ access_config.TASK_ACCESS_RESTRICTIONS # None
         /\ row.tenant_id \notin {None, jwt_claims.tid}
    ELSE /\ access_config.TASK_ACCESS_RESTRICTIONS # None
         /\ (row.tenant_id # None \/ row.user_id # None)

\* lines 114-124 (and 151-161): the request is answered 403
Forbidden(row) ==
    IF access_config.AAD_VERIFY
    THEN \/ /\ access_config.TASK_ACCESS_RESTRICTIONS # None
            /\ row.tenant_id \notin {None, jwt_claims.tid}
         \/ /\ access_config.TASK_ACCESS_RESTRICTIONS = "per-user"
            /\ row.user_id \notin {None, jwt_claims.sub}
    ELSE /\ access_config.TASK_ACCESS_RESTRICTIONS # None
         /\ (row.tenant_id # None \/ row.user_id # None)

ErrorBody == [kind |-> "errors"]
\* schema.dump(task)
TaskBody(row) == [kind |-> "task", state |-> row.state, logs |-> row.logs]

\* a not-found answer taken for a task that has become UNKNOWN
Task_get_outcome_MarksUnknown(row, backend_task, t) ==
    IF backend_task.kind = "raised" THEN [row |-> row, code |-> 500, body |-> ErrorBody]
    ELSE IF backend_task.kind # "task"
    THEN [row |-> [row EXCEPT !.state = "UNKNOWN", !.updated_ts = t], code |-> 200,
          body |-> TaskBody([row EXCEPT !.state = "UNKNOWN"])]
    ELSE [row |-> MergeAndSave(row, backend_task, t), code |-> 200,
          body |-> TaskBody(MergeAndSave(row, backend_task, t))]

\* lines 129-140: what Task.get does with what get_task gave: [row, code, body].
\* An exception leaves the handler and is answered with 500.
Task_get_outcome(row, backend_task, t) ==
    IF backend_task.kind = "raised" THEN [row |-> row, code |-> 500, body |-> ErrorBody]
    ELSE IF backend_task.kind # "task"
    THEN [row |-> row, code |-> 500, body |-> ErrorBody]
    ELSE [row |-> MergeAndSave(row, backend_task, t), code |-> 200,
          body |-> TaskBody(MergeAndSave(row, backend_task, t))]

\* GET /tasks/<task_id>
Task_get(task_id) ==
    /\ polls < MaxPolls
    /\ polls' = polls + 1
    /\ IF task_id \notin DOMAIN store
       THEN /\ response' = [task_id |-> task_id, code |-> 404, body |-> ErrorBody]
            /\ UNCHANGED <<store, last_get, TaskLog_logs>>
       ELSE IF Forbidden(store[task_id])
       THEN /\ response' = [task_id |-> task_id, code |-> 403, body |-> ErrorBody]
            /\ UNCHANGED <<store, last_get, TaskLog_logs>>
       ELSE LET row == store[task_id]
            IN \E fault \in LookupFaults(compute_backend),
                  failing \in FetchFaults(compute_backend, cloud_jobs, row.backend_id) :
                  LET got == backend_get_task(compute_backend, cloud_jobs, row.backend_id,
                                              fault, failing, TaskLog_logs, now)
                      out == Task_get_outcome(row, got.result, now)
                  IN /\ last_get' = GetRecord(cloud_jobs, row.backend_id, fault, failing,
                                              got.result)
                     /\ TaskLog_logs' = got.logs
                     /\ store' = [store EXCEPT ![task_id] = out.row]
                     /\ response' = [task_id |-> task_id, code |-> out.code,
                                     body |-> out.body]
    /\ UNCHANGED <<compute_backend, cloud_jobs, last_cancel, now, createVars, reaperVars, raceVars, selectorVars,
                   provisionVars, sizingVars, detectVars, mangleVars, submitVars, aclVars>>

\* what backend.cancel_task gave other than False or an exception: True, or the str
\* "{}" of the mock backend
BackendTrue == [kind |-> "True"]
BackendStr == [kind |-> "str"]

\* the error code job.delete is answered with, or "none": the fault the call met, or
\* that the account holds no such job, or that the job is already being deleted
job_delete(jobs, task_id, fault) ==
    IF fault # "none" THEN fault
    ELSE IF task_id \notin DOMAIN jobs THEN "JobNotFound"
    ELSE IF jobs[task_id].state = "deleting" THEN "JobBeingDeleted"
    ELSE "none"

\* the faults a job.delete call can meet
JobDeleteFaults == {"none", "OperationTimedOut"}

\* a cancel_task that hands on every error of job.delete but JobNotFound, as get_task
\* does with the errors of job.get
AzureBatchEngine_cancel_task_RaisesFaults(jobs, task_id, fault) ==
    LET code == job_delete(jobs, task_id, fault)
    IN [result |-> IF code = "none" THEN BackendTrue
                   ELSE IF code = "JobNotFound" THEN BackendFalse
                   ELSE BackendRaised(code),
        jobs |-> IF code = "none"
                 THEN [jobs EXCEPT ![task_id] = CloudJob(task_id, "deleting", <<>>)]
                 ELSE jobs,
        calls |-> <<"job.delete">>]

\* lines 384-391: one job.delete; True when it went through, False on any
\* BatchErrorException
AzureBatchEngine_cancel_task(jobs, task_id, fault) ==
    LET code == job_delete(jobs, task_id, fault)
    IN [result |-> IF code = "none" THEN BackendTrue ELSE BackendFalse,
        jobs |-> IF code = "none"
                 THEN [jobs EXCEPT ![task_id] = CloudJob(task_id, "deleting", <<>>)]
                 ELSE jobs,
        calls |-> <<"job.delete">>]

\* mock/__init__.py 49-51
MockBackend_cancel_task(jobs, task_id) ==
    [result |-> BackendStr, jobs |-> jobs, calls |-> <<>>]

\* compute_backend.backend.cancel_task(...)
backend_cancel_task(backend, jobs, task_id, fault) ==
    IF backend = "batch"
    THEN AzureBatchEngine_cancel_task(jobs, task_id, fault)
    ELSE MockBackend_cancel_task(jobs, task_id)

\* the faults the cancel of the configured backend can meet
CancelFaults(backend) == IF backend = "batch" THEN JobDeleteFaults ELSE {"none"}

\* the value is true in an if
Truthy(v) == v.kind \in {"True", "str", "task"}

\* the body "{}" of a cancellation that went through
EmptyBody == [kind |-> "{}"]

\* POST /tasks/<task_id>:cancel
TaskCancel_post(task_id) ==
    /\ polls < MaxPolls
    /\ polls' = polls + 1
    /\ IF task_id \notin DOMAIN store
       THEN /\ response' = [task_id |-> task_id, code |-> 404, body |-> ErrorBody]
            /\ UNCHANGED <<cloud_jobs, last_cancel>>
       ELSE IF Forbidden(store[task_id])
       THEN /\ response' = [task_id |-> task_id, code |-> 403, body |-> ErrorBody]
            /\ UNCHANGED <<cloud_jobs, last_cancel>>
       ELSE LET b == store[task_id].backend_id
            IN \E fault \in CancelFaults(compute_backend) :
                  LET out == backend_cancel_task(compute_backend, cloud_jobs, b, fault)
                  IN /\ last_cancel' =
                          [called |-> TRUE, task_id |-> b,
                           known |-> b \in DOMAIN cloud_jobs, fault |-> fault,
                           result |-> out.result, calls |-> out.calls]
                     /\ cloud_jobs' = out.jobs
                     /\ response' =
                          IF out.result.kind = "raised"
                          THEN [task_id |-> task_id, code |-> 500, body |-> ErrorBody]
                          ELSE IF Truthy(out.result)
                          THEN [task_id |-> task_id, code |-> 200, body |-> EmptyBody]
                          ELSE [task_id |-> task_id, code |-> 500, body |-> ErrorBody]
    /\ UNCHANGED <<compute_backend, store, TaskLog_logs, last_get, now, createVars,
                   reaperVars, raceVars, selectorVars, provisionVars, sizingVars, detectVars,
                   mangleVars, submitVars, aclVars>>

\* the job completes
Batch_JobCompletes(b) ==
    /\ compute_backend = "batch"
    /\ b \in DOMAIN cloud_jobs
    /\ cloud_jobs[b].state = "active"
    /\ cloud_jobs' = [cloud_jobs EXCEPT ![b] =
                         CloudJob(b, "completed",
                                  [i \in DOMAIN @.tasks |->
                                     [result |-> @.tasks[i].result,
                                      category |-> @.tasks[i].category,
                                      exit_code |-> @.tasks[i].exit_code]])]
    /\ UNCHANGED <<compute_backend, store, TaskLog_logs, polls, last_get, last_cancel, response, now,
                   createVars, reaperVars, raceVars, selectorVars, provisionVars, sizingVars,
                   detectVars, mangleVars, submitVars, aclVars>>

\* the job is deleted from the account
Batch_JobDeleted(b) ==
    /\ compute_backend = "batch"
    /\ b \in DOMAIN cloud_jobs
    /\ cloud_jobs' = [x \in DOMAIN cloud_jobs \ {b} |-> cloud_jobs[x]]
    /\ UNCHANGED <<compute_backend, store, TaskLog_logs, polls, last_get, last_cancel, response, now,
                   createVars, reaperVars, raceVars, selectorVars, provisionVars, sizingVars,
                   detectVars, mangleVars, submitVars, aclVars>>

\* the createJob part at rest
CreateIdle ==
    /\ task = [inputs |-> <<>>, outputs |-> <<>>, executors |-> <<>>,
               resources |-> [cpu_cores |-> 0, ram_gb |-> 0, disk_gb |-> 0]]
    /\ pc = [c \in Calls |-> "returned"]
    /\ job_id = [c \in Calls |-> 0]
    /\ existing_job_ids = [c \in Calls |-> {}]
    /\ job = [c \in Calls |-> NoJob]
    /\ executor_index = [c \in Calls |-> 0]
    /\ result = [c \in Calls |-> NotReturned]
    /\ calls = [c \in Calls |-> <<>>]
    /\ batch_jobs = {}
    /\ batch_tasks = [id \in JobIds |-> <<>>]

\* one stored task, submitted as job 1; the job is in any state, or already gone
InitPoll ==
    /\ CreateIdle
    /\ SelectorIdle
    /\ ProvisionIdle
    /\ ReaperIdle
    /\ SizingIdle
    /\ DetectIdle
    /\ MangleIdle
    /\ SubmitIdle
    /\ AclIdle
    /\ compute_backend \in {"batch", "mock"}
    /\ IF compute_backend = "batch"
       THEN cloud_jobs \in { [b \in {1} |-> j] : j \in PollJobs(1) }
       ELSE cloud_jobs = <<>>
    /\ store = [t \in {1} |-> StoredTask(1, "QUEUED", 0)]
    /\ TaskLog_logs = <<>>
    /\ polls = 0
    /\ last_get = NoGet
    /\ last_cancel = NoCancel
    /\ response = NoResponse
    /\ now = 0

NextPoll ==
    \/ \E task_id \in StoreIds : Task_get(task_id)
    \/ \E task_id \in StoreIds : TaskCancel_post(task_id)
    \/ \E b \in JobIds : Batch_JobCompletes(b)
    \/ \E b \in JobIds : Batch_JobDeleted(b)

SpecPoll == InitPoll /\ [][NextPoll]_vars

(* ------------------------- properties of polls ------------------------ *)
\* C5: a get_task of the Batch backend whose job lookup met no fault and whose id
\* the account does not hold returned False and did not raise; a get_task whose job
\* lookup met any other fault raised that fault.
C5_NotFoundIsFalseFaultRaises ==
    (compute_backend = "batch" /\ last_get.called) =>
        /\ (last_get.fault = "none" /\ ~last_get.known) => last_get.result = BackendFalse
        /\ last_get.fault # "none" => last_get.result = BackendRaised(last_get.fault)

\* a lookup of an id the account does not hold
C5_Witness ==
    compute_backend = "batch" /\ last_get.called /\ last_get.fault = "none"
    /\ ~last_get.known /\ last_get.result.kind = "False"

\* the executor logs a get_task returned, as the caller reads them
LastExecutorLogs == logs_getter(last_get.result.logs)[1].logs

\* C6: a get_task that returned a task for a completed job fetched stdout.txt and
\* stderr.txt of every task of the job, in task order, and every executor log
\* carries the text of each file whose fetch did not fail; a get_task that returned
\* a task for a job that is not completed fetched no file and left stdout and stderr
\* of every executor log empty.
C6_CompletedAttachesStreams ==
    (compute_backend = "batch" /\ last_get.called /\ last_get.result.kind = "task") =>
        IF last_get.job_state = "completed"
        THEN /\ Len(LastExecutorLogs) = last_get.n_tasks
             /\ last_get.result.fetches =
                    [k \in 1..(2 * last_get.n_tasks) |->
                        <<(k + 1) \div 2,
                          IF k % 2 = 1 THEN "stdout.txt" ELSE "stderr.txt">>]
             /\ \A i \in 1..last_get.n_tasks :
                  /\ <<i, "stdout.txt">> \notin last_get.failing
                        => LastExecutorLogs[i].stdout = "out"
                  /\ <<i, "stderr.txt">> \notin last_get.failing
                        => LastExecutorLogs[i].stderr = "err"
        ELSE /\ last_get.result.fetches = <<>>
             /\ \A i \in DOMAIN LastExecutorLogs :
                  LastExecutorLogs[i].stdout = "" /\ LastExecutorLogs[i].stderr = ""

\* the part of C6 about jobs that are not completed
C6_NotCompletedNoStreams ==
    (compute_backend = "batch" /\ last_get.called /\ last_get.result.kind = "task"
     /\ last_get.job_state # "completed") =>
        /\ last_get.result.fetches = <<>>
        /\ \A i \in DOMAIN LastExecutorLogs :
             LastExecutorLogs[i].stdout = "" /\ LastExecutorLogs[i].stderr = ""

\* the number of executor tasks the backend held at the latest get_task: the tasks of
\* the job, or the one executor the mock backend makes up
BackendExecutorTasks == IF compute_backend = "batch" THEN last_get.n_tasks ELSE 1

\* C7: after a poll that succeeded, the stored task's logs are those of that poll:
\* one TaskLog holding one ExecutorLog per executor task of the backend, whatever
\* the polls before it left.
C7_LogsReplacedNotAccumulated ==
    (response.code = 200 /\ response.body # EmptyBody) =>
        LET logs == store[response.task_id].logs
        IN /\ logs = last_get.result.logs
           /\ Len(logs) = 1
           /\ Len(logs[1].logs) = BackendExecutorTasks

\* C7 for the Batch backend alone
C7_BatchLogsReplaced ==
    (compute_backend = "batch" /\ response.code = 200 /\ response.body # EmptyBody) =>
        LET logs == store[response.task_id].logs
        IN /\ logs = last_get.result.logs
           /\ Len(logs) = 1
           /\ Len(logs[1].logs) = BackendExecutorTasks

\* C8: a Task.get of a stored task whose job the backend does not hold is answered
\* with an error status, not 200, and leaves the store as it was.
C8_NotFoundReadIsErrorAndNoTransition ==
    [][(polls' = polls + 1 /\ last_cancel' = last_cancel
        /\ compute_backend = "batch" /\ last_get'.called
        /\ response'.task_id \in DOMAIN store
        /\ store[response'.task_id].backend_id \notin DOMAIN cloud_jobs
        /\ last_get'.fault = "none")
       => (response'.code = 500 /\ response'.body = ErrorBody /\ store' = store)]_vars

\* a stored task was read after its job had been deleted
C8_Witness ==
    /\ compute_backend = "batch" /\ response.code = 500 /\ last_get.called
    /\ ~last_get.known /\ last_get.fault = "none" /\ response.task_id \in DOMAIN store
    /\ ~last_cancel.called

(* --------------------------- jobs.cleanup_tasks ----------------------- *)
\* largest horizon a configuration sets, and the last hour of the clock
MaxHorizon == 2
MaxClock == 3

\* a backend call or a store operation of the pass, and the policy it serves
Event(policy, op, task_id) == [policy |-> policy, op |-> op, task_id |-> task_id]

\* a check that also refuses equal horizons
HorizonsInvalid_RefusesEqual(cfg) ==
    cfg.TASK_BACKEND_CLEANUP_HOURS >= cfg.TASK_DATABASE_CLEANUP_HOURS

\* line 31
HorizonsInvalid(cfg) ==
    cfg.TASK_BACKEND_CLEANUP_HOURS > cfg.TASK_DATABASE_CLEANUP_HOURS

\* the ids in S in ascending order
RECURSIVE Ascending(_)
Ascending(S) ==
    IF S = {} THEN <<>>
    ELSE LET m == CHOOSE x \in S : \A y \in S : x <= y
         IN <<m>> \o Ascending(S \ {m})

\* queries whose last loop visits every row, whatever its state
Query_OrphansAllRows(policy, rows, t, cfg) ==
    Ascending(
        CASE policy = "backend" ->
               {id \in DOMAIN rows : rows[id].updated_ts <= t - cfg.TASK_BACKEND_CLEANUP_HOURS}
          [] policy = "database" ->
               {id \in DOMAIN rows : rows[id].updated_ts <= t - cfg.TASK_DATABASE_CLEANUP_HOURS}
          [] policy = "orphans" -> DOMAIN rows
          [] OTHER -> {})

\* queries whose delete loop works on the cutoff of the backend cleanup
Query_DeletesAtBackendHorizon(policy, rows, t, cfg) ==
    Ascending(
        CASE policy \in {"backend", "database"} ->
               {id \in DOMAIN rows : rows[id].updated_ts <= t - cfg.TASK_BACKEND_CLEANUP_HOURS}
          [] policy = "orphans" ->
               {id \in DOMAIN rows : rows[id].state = "RUNNING"}
          [] OTHER -> {})

\* the rows the loop of a policy visits: the queries of lines 36, 42 and 47
Query(policy, rows, t, cfg) ==
    Ascending(
        CASE policy = "backend" ->
               {id \in DOMAIN rows : rows[id].updated_ts <= t - cfg.TASK_BACKEND_CLEANUP_HOURS}
          [] policy = "database" ->
               {id \in DOMAIN rows : rows[id].updated_ts <= t - cfg.TASK_DATABASE_CLEANUP_HOURS}
          [] policy = "orphans" ->
               {id \in DOMAIN rows : rows[id].state = "RUNNING"}
          [] OTHER -> {})

\* the pass running the orphan policy before the database cleanup
NextPolicy_OrphansFirst(policy) ==
    CASE policy = "backend" -> "orphans"
      [] policy = "orphans" -> "database"
      [] OTHER -> "done"

\* the TesTask objects a query gives: the rows with these ids, as stored when the
\* query ran
Loaded(ids, rows) == [i \in DOMAIN ids |-> [id |-> ids[i], row |-> rows[ids[i]]]]

\* the order of the three loops, then the commit of line 56
NextPolicy(policy) ==
    CASE policy = "backend" -> "database"
      [] policy = "database" -> "orphans"
      [] OTHER -> "done"

\* AzureBatchEngine.cancel_task and MockBackend.cancel_task: job.delete puts the job
\* into deleting; a BatchErrorException is answered with False and changes nothing
cancel_task(backend, jobs, task_id, fault) ==
    backend_cancel_task(backend, jobs, task_id,
                        IF fault /\ backend = "batch" THEN "OperationTimedOut"
                        ELSE "none").jobs

\* db.session.commit(): the assigned states reach the rows, which are stamped
Commit(rows, assigned, t) ==
    [id \in DOMAIN rows |->
        IF id \in DOMAIN assigned
        THEN [rows[id] EXCEPT !.state = assigned[id], !.updated_ts = t]
        ELSE rows[id]]

\* session with state s assigned to row id
Assign(assigned, id, s) ==
    [x \in DOMAIN assigned \cup {id} |-> IF x = id THEN s ELSE assigned[x]]

\* lines 30-36: the check of the horizons, then the first query
Reaper_Start ==
    /\ reaper_pc = "idle"
    /\ store_at_start' = store
    /\ IF HorizonsInvalid(config)
       THEN /\ reaper_pc' = "config_error"
            /\ UNCHANGED <<reaper_tasks, query_time>>
       ELSE /\ reaper_pc' = "backend"
            /\ reaper_tasks' = Loaded(Query("backend", store, now, config), store)
            /\ query_time' = [query_time EXCEPT !["backend"] = now]
    /\ UNCHANGED <<config, session, reaper_log, pollVars, createVars, raceVars, selectorVars,
                   provisionVars, sizingVars, detectVars, mangleVars, submitVars, aclVars>>

\* a backend cleanup that cancels whatever get_task gave
backend_cleanup_cancels_Always(backend_task) == TRUE

\* line 38: the backend cleanup cancels when get_task gave a task, not False
backend_cleanup_cancels(backend_task) == backend_task.kind = "task"

\* lines 37-39: one round of the backend cleanup
Reaper_BackendCleanup ==
    /\ reaper_pc = "backend"
    /\ reaper_tasks # <<>>
    /\ LET id == Head(reaper_tasks).id
           b == Head(reaper_tasks).row.backend_id
       IN \E fault \in LookupFaults(compute_backend), cancel_fault \in BOOLEAN :
            LET got == backend_get_task(compute_backend, cloud_jobs, b, fault, {},
                                        TaskLog_logs, now)
            IN /\ TaskLog_logs' = got.logs
               /\ IF got.result.kind = "raised"
                  THEN /\ ~cancel_fault
                       /\ reaper_pc' = "backend_error"
                       /\ reaper_log' = Append(reaper_log, Event("backend", "get_task", id))
                       /\ UNCHANGED <<cloud_jobs, reaper_tasks>>
                  ELSE IF backend_cleanup_cancels(got.result)
                  THEN /\ reaper_log' = reaper_log
                                        \o <<Event("backend", "get_task", id),
                                             Event("backend", "cancel_task", id)>>
                       /\ cloud_jobs' = cancel_task(compute_backend, cloud_jobs, b,
                                                    cancel_fault)
                       /\ reaper_tasks' = Tail(reaper_tasks)
                       /\ UNCHANGED reaper_pc
                  ELSE /\ ~cancel_fault
                       /\ reaper_log' = Append(reaper_log, Event("backend", "get_task", id))
                       /\ reaper_tasks' = Tail(reaper_tasks)
                       /\ UNCHANGED <<cloud_jobs, reaper_pc>>
    /\ UNCHANGED <<config, session, store_at_start, query_time, compute_backend, store,
                   polls, last_get, last_cancel, response, now, createVars, raceVars, selectorVars,
                   provisionVars, sizingVars, detectVars, mangleVars, submitVars, aclVars>>

\* lines 43-44: one round of the database cleanup; task.delete() commits
Reaper_DatabaseCleanup ==
    /\ reaper_pc = "database"
    /\ reaper_tasks # <<>>
    /\ LET id == Head(reaper_tasks).id
       IN /\ store' = CRUDMixin_delete(store, id)
          /\ reaper_log' = Append(reaper_log, Event("database", "delete", id))
          /\ reaper_tasks' = Tail(reaper_tasks)
    /\ UNCHANGED <<config, reaper_pc, session, store_at_start, query_time, compute_backend,
                   cloud_jobs, TaskLog_logs, polls, last_get, last_cancel, response, now, createVars, raceVars, selectorVars,
                   provisionVars, sizingVars, detectVars, mangleVars, submitVars, aclVars>>

\* a loop that treats a task the backend does not report as one that timed out
orphan_policy_CancelsOrphans(backend_task, updated_ts, t, cfg) ==
    IF backend_task.kind = "False" \/ updated_ts < t - cfg.TASK_EXECUTION_TIMEOUT_HOURS
    THEN "CANCELED"
    ELSE "none"

\* lines 50-54: what the loop over the running tasks does with a row, given what
\* get_task gave for it: mark it UNKNOWN, cancel it and mark it CANCELED, or nothing
orphan_policy(backend_task, updated_ts, t, cfg) ==
    IF backend_task.kind = "False" THEN "UNKNOWN"
    ELSE IF updated_ts < t - cfg.TASK_EXECUTION_TIMEOUT_HOURS THEN "CANCELED"
    ELSE "none"

\* lines 49-54: one round of the loop over the running tasks
Reaper_Orphans ==
    /\ reaper_pc = "orphans"
    /\ reaper_tasks # <<>>
    /\ LET id == Head(reaper_tasks).id
           b == Head(reaper_tasks).row.backend_id
       IN \E fault \in LookupFaults(compute_backend), cancel_fault \in BOOLEAN :
            LET got == backend_get_task(compute_backend, cloud_jobs, b, fault, {},
                                        TaskLog_logs, now)
            IN /\ TaskLog_logs' = got.logs
               /\ IF got.result.kind = "raised"
                  THEN /\ ~cancel_fault
                       /\ reaper_pc' = "backend_error"
                       /\ reaper_log' = Append(reaper_log, Event("orphans", "get_task", id))
                       /\ session' = <<>>
                       /\ UNCHANGED <<cloud_jobs, reaper_tasks>>
                  ELSE IF orphan_policy(got.result, Head(reaper_tasks).row.updated_ts, now,
                                        config)
                            = "UNKNOWN"
                  THEN /\ ~cancel_fault
                       /\ session' = Assign(session, id, "UNKNOWN")
                       /\ reaper_log' = reaper_log
                                        \o <<Event("orphans", "get_task", id),
                                             Event("orphans", "state", id)>>
                       /\ reaper_tasks' = Tail(reaper_tasks)
                       /\ UNCHANGED <<cloud_jobs, reaper_pc>>
                  ELSE IF orphan_policy(got.result, Head(reaper_tasks).row.updated_ts, now,
                                        config)
                            = "CANCELED"
                  THEN /\ cloud_jobs' = cancel_task(compute_backend, cloud_jobs, b,
                                                    cancel_fault)
                       /\ session' = Assign(session, id, "CANCELED")
                       /\ reaper_log' = reaper_log
                                        \o <<Event("orphans", "get_task", id),
                                             Event("orphans", "cancel_task", id),
                                             Event("orphans", "state", id)>>
                       /\ reaper_tasks' = Tail(reaper_tasks)
                       /\ UNCHANGED reaper_pc
                  ELSE /\ ~cancel_fault
                       /\ reaper_log' = Append(reaper_log, Event("orphans", "get_task", id))
                       /\ reaper_tasks' = Tail(reaper_tasks)
                       /\ UNCHANGED <<cloud_jobs, reaper_pc, session>>
    /\ UNCHANGED <<config, store_at_start, query_time, compute_backend, store, polls,
                   last_get, last_cancel, response, now, createVars, raceVars, selectorVars,
                   provisionVars, sizingVars, detectVars, mangleVars, submitVars, aclVars>>

\* a loop has visited its rows: the query of the next loop, or line 56
Reaper_PolicyDone ==
    /\ reaper_pc \in {"backend", "database", "orphans"}
    /\ reaper_tasks = <<>>
    /\ reaper_pc' = NextPolicy(reaper_pc)
    /\ IF NextPolicy(reaper_pc) = "done"
       THEN /\ store' = Commit(store, session, now)
            /\ session' = <<>>
            /\ reaper_log' = Append(reaper_log, Event("commit", "commit", 0))
            /\ UNCHANGED <<reaper_tasks, query_time>>
       ELSE /\ reaper_tasks' = Loaded(Query(NextPolicy(reaper_pc), store, now, config),
                                      store)
            /\ query_time' = [query_time EXCEPT ![NextPolicy(reaper_pc)] = now]
            /\ UNCHANGED <<store, session, reaper_log>>
    /\ UNCHANGED <<config, store_at_start, compute_backend, cloud_jobs, TaskLog_logs, polls,
                   last_get, last_cancel, response, now, createVars, raceVars, selectorVars,
                   provisionVars, sizingVars, detectVars, mangleVars, submitVars, aclVars>>

\* an hour passes
Tick ==
    /\ now < MaxClock
    /\ now' = now + 1
    /\ UNCHANGED <<compute_backend, cloud_jobs, store, TaskLog_logs, polls, last_get, last_cancel,
                   response, createVars, reaperVars, raceVars, selectorVars, provisionVars,
                   sizingVars, detectVars, mangleVars, submitVars, aclVars>>

\* the horizons a deployment may set
Configs ==
    { [TASK_BACKEND_CLEANUP_HOURS |-> b, TASK_DATABASE_CLEANUP_HOURS |-> d,
       TASK_EXECUTION_TIMEOUT_HOURS |-> 1] : b \in 1..MaxHorizon, d \in 1..MaxHorizon }

\* stores of rows of any age, running or complete, each with or without its job
InitReaper ==
    /\ CreateIdle
    /\ SelectorIdle
    /\ ProvisionIdle
    /\ SizingIdle
    /\ DetectIdle
    /\ MangleIdle
    /\ SubmitIdle
    /\ AclIdle
    /\ config \in Configs
    /\ reaper_pc = "idle"
    /\ reaper_tasks = <<>>
    /\ session = <<>>
    /\ reaper_log = <<>>
    /\ store_at_start = <<>>
    /\ query_time = NoQueries
    /\ other_pass = IdlePass
    /\ before_passes = NoSnapshot
    /\ compute_backend \in {"batch", "mock"}
    /\ now = MaxHorizon
    /\ store \in { [id \in StoreIds |-> StoredTask(id, f[id][1], f[id][2])] :
                      f \in [StoreIds -> {"RUNNING", "COMPLETE"} \X (0..MaxHorizon)] }
    /\ cloud_jobs \in
          IF compute_backend = "batch"
          THEN { [b \in held |-> CloudJob(b, "active", <<[result |-> "success", category |-> None,
                                                    exit_code |-> 0]>>)] :
                   held \in SUBSET StoreIds }
          ELSE {<<>>}
    /\ TaskLog_logs = <<>>
    /\ polls = 0
    /\ last_get = NoGet
    /\ last_cancel = NoCancel
    /\ response = NoResponse

NextReaper ==
    \/ Reaper_Start
    \/ Reaper_BackendCleanup
    \/ Reaper_DatabaseCleanup
    \/ Reaper_Orphans
    \/ Reaper_PolicyDone
    \/ Tick

SpecReaper == InitReaper /\ [][NextReaper]_vars

(* ------------------------ properties of the reaper -------------------- *)
\* C9: a pass started with the backend-cleanup horizon above the database-cleanup
\* horizon has raised on the horizons with no backend call made, no row deleted, no
\* state assigned and nothing committed; a pass started with equal horizons has
\* not raised on the horizons.
C9_InvalidHorizonsRaiseFirst ==
    reaper_pc # "idle" =>
        /\ (config.TASK_BACKEND_CLEANUP_HOURS > config.TASK_DATABASE_CLEANUP_HOURS =>
               /\ reaper_pc = "config_error"
               /\ reaper_log = <<>>
               /\ session = <<>>
               /\ store = store_at_start)
        /\ (config.TASK_BACKEND_CLEANUP_HOURS = config.TASK_DATABASE_CLEANUP_HOURS =>
               reaper_pc # "config_error")

\* a pass raised on the horizons over a store that holds rows
C9_Witness ==
    /\ reaper_pc = "config_error"
    /\ config.TASK_BACKEND_CLEANUP_HOURS > config.TASK_DATABASE_CLEANUP_HOURS
    /\ DOMAIN store # {}

\* C10: in the log of a pass every cancel_task of the backend cleanup comes before
\* every delete, and every delete comes before every assignment of a state.
C10_PoliciesInStrictOrder ==
    \A i, j \in DOMAIN reaper_log :
        /\ (reaper_log[i].policy = "backend" /\ reaper_log[i].op = "cancel_task"
            /\ reaper_log[j].op = "delete") => i < j
        /\ (reaper_log[i].op = "delete" /\ reaper_log[j].op = "state") => i < j

\* a pass that cancelled in the backend cleanup, deleted a row and assigned a state
C10_Witness ==
    /\ \E i \in DOMAIN reaper_log :
          reaper_log[i].policy = "backend" /\ reaper_log[i].op = "cancel_task"
    /\ \E i \in DOMAIN reaper_log : reaper_log[i].op = "delete"
    /\ \E i \in DOMAIN reaper_log : reaper_log[i].op = "state"

\* C11: every row a pass deletes was visited by the backend cleanup of that pass
\* first: before the delete the log holds the backend cleanup's get_task for the row.
C11_DeletedWasCoveredByBackendCleanup ==
    \A j \in DOMAIN reaper_log :
        reaper_log[j].op = "delete" =>
            \E i \in 1..(j - 1) :
                reaper_log[i] = Event("backend", "get_task", reaper_log[j].task_id)

\* C11 where the clock stood still between the query of line 36 and that of line 42
C11_CoveredWhenClockStoodStill ==
    query_time["database"] = query_time["backend"] =>
        \A j \in DOMAIN reaper_log :
            reaper_log[j].op = "delete" =>
                \E i \in 1..(j - 1) :
                    reaper_log[i] = Event("backend", "get_task", reaper_log[j].task_id)

\* how often event e stands in the log of the pass
Occurrences(e) == Cardinality({i \in DOMAIN reaper_log : reaper_log[i] = e})

\* the backend holds the job of row id of the store the pass started on
BackendReports(id) ==
    compute_backend = "mock" \/ store_at_start[id].backend_id \in DOMAIN cloud_jobs

\* row id was last updated at or before the cutoff of the backend query
BackendStale(id) ==
    store_at_start[id].updated_ts
        <= query_time["backend"] - config.TASK_BACKEND_CLEANUP_HOURS

\* C12: once the backend cleanup of a pass has run to its end, it has looked up each
\* row last updated at or before its cutoff exactly once, has cancelled exactly once
\* each such row whose job the backend reported and no other, and has made no
\* backend call for a row updated after the cutoff.
C12_BackendCleanupOneQueryOneCancel ==
    reaper_pc \in {"database", "orphans", "done"} =>
        \A id \in DOMAIN store_at_start :
            /\ Occurrences(Event("backend", "get_task", id))
                  = (IF BackendStale(id) THEN 1 ELSE 0)
            /\ Occurrences(Event("backend", "cancel_task", id))
                  = (IF BackendStale(id) /\ BackendReports(id) THEN 1 ELSE 0)

\* the backend cleanup ran to its end, cancelled one row's job and found another
\* row's job gone
C12_Witness ==
    /\ reaper_pc = "database"
    /\ \E id \in DOMAIN store_at_start :
          Occurrences(Event("backend", "cancel_task", id)) = 1
    /\ \E id \in DOMAIN store_at_start :
          /\ Occurrences(Event("backend", "get_task", id)) = 1
          /\ Occurrences(Event("backend", "cancel_task", id)) = 0

\* row id was last updated at or before the cutoff of the delete query
DatabaseStale(id) ==
    store_at_start[id].updated_ts
        <= query_time["database"] - config.TASK_DATABASE_CLEANUP_HOURS

\* C13: once the delete loop of a pass has run to its end, and after the commit of
\* a pass that did not raise, the store holds none of the rows last updated at or
\* before the cutoff of the delete query and still holds every other row.
C13_StaleRowsGoneFreshRowsKept ==
    reaper_pc \in {"orphans", "done"} =>
        \A id \in DOMAIN store_at_start :
            id \notin DOMAIN store <=> DatabaseStale(id)

\* a pass ended without raising, having deleted one row and kept another
C13_Witness ==
    /\ reaper_pc = "done"
    /\ \E id \in DOMAIN store_at_start : id \notin DOMAIN store
    /\ \E id \in DOMAIN store_at_start : id \in DOMAIN store

\* the state the store holds for row id, or the one the pass has assigned to it
StateInPass(id) == IF id \in DOMAIN session THEN session[id] ELSE store[id].state

RunningAndReported(id) ==
    /\ id \in DOMAIN store
    /\ store_at_start[id].state = "RUNNING"
    /\ BackendReports(id)

\* C15: after a pass that did not raise, every row that was RUNNING, that the backend
\* reports and whose task was created, and has been running, for longer than
\* TASK_EXECUTION_TIMEOUT_HOURS when the loop over the running tasks began has been
\* cancelled at the backend and is CANCELED.
C15_LongRunningIsCancelled ==
    reaper_pc = "done" =>
        \A id \in DOMAIN store_at_start :
            (/\ RunningAndReported(id)
             /\ store_at_start[id].created_ts.datetime
                   < query_time["orphans"] - config.TASK_EXECUTION_TIMEOUT_HOURS)
            => /\ store[id].state = "CANCELED"
               /\ Occurrences(Event("orphans", "cancel_task", id)) = 1

\* C15 as the code measures it, by the last save of the row: a RUNNING, reported row
\* not saved for longer than the timeout is cancelled and CANCELED
C15_QuietRunningIsCancelled ==
    reaper_pc = "done" =>
        \A id \in DOMAIN store_at_start :
            (/\ RunningAndReported(id)
             /\ store_at_start[id].updated_ts
                   < query_time["orphans"] - config.TASK_EXECUTION_TIMEOUT_HOURS)
            => /\ store[id].state = "CANCELED"
               /\ Occurrences(Event("orphans", "cancel_task", id)) = 1

\* C15, second half: a RUNNING, reported row saved within the timeout is left
\* RUNNING, as it was, by the loop over the running tasks
C15_FreshRunningUntouched ==
    reaper_pc = "done" =>
        \A id \in DOMAIN store_at_start :
            (/\ RunningAndReported(id)
             /\ store_at_start[id].updated_ts
                   >= now - config.TASK_EXECUTION_TIMEOUT_HOURS)
            => /\ store[id] = store_at_start[id]
               /\ Occurrences(Event("orphans", "cancel_task", id)) = 0

\* C16: a pass that failed on a backend fault has persisted none of its store
\* mutations: the store is as it was when the pass started.
C16_FailedPassPersistsNothing ==
    reaper_pc = "backend_error" => store = store_at_start

\* C16 for the state changes alone: until the commit of line 56 every row the store
\* still holds is as it was when the pass started
C16_StateChangesOnlyAtCommit ==
    reaper_pc \in {"backend", "database", "orphans", "backend_error", "config_error"} =>
        \A id \in DOMAIN store : store[id] = store_at_start[id]

(* ------------------ two workers running cleanup_tasks ----------------- *)
\* the locals of the pass of the worker that is running
ThisPass ==
    [reaper_pc |-> reaper_pc, reaper_tasks |-> reaper_tasks, session |-> session,
     reaper_log |-> reaper_log, store_at_start |-> store_at_start,
     query_time |-> query_time]

\* the other worker gets to run: its pass goes on from where it stood
Reaper_Switch ==
    /\ other_pass.reaper_pc \in {"idle", "backend", "database", "orphans"}
    /\ other_pass' = ThisPass
    /\ reaper_pc' = other_pass.reaper_pc
    /\ reaper_tasks' = other_pass.reaper_tasks
    /\ session' = other_pass.session
    /\ reaper_log' = other_pass.reaper_log
    /\ store_at_start' = other_pass.store_at_start
    /\ query_time' = other_pass.query_time
    /\ UNCHANGED <<config, before_passes, pollVars, createVars, selectorVars, provisionVars,
                   sizingVars, detectVars, mangleVars, submitVars, aclVars>>

\* the Batch service has finished deleting a job that cancel_task deleted
Batch_DeletingJobGone ==
    \E b \in DOMAIN cloud_jobs :
        /\ cloud_jobs[b].state = "deleting"
        /\ Batch_JobDeleted(b)

\* base_config on a clock that counts in units of six hours
race_config == [TASK_BACKEND_CLEANUP_HOURS |-> 4, TASK_DATABASE_CLEANUP_HOURS |-> 8,
                TASK_EXECUTION_TIMEOUT_HOURS |-> 2]

\* when the passes run, and the last saves of the rows they find: at or before the
\* cutoff of the delete query, at the cutoff of the backend query, between that
\* cutoff and the timeout, and at the time of the passes
RaceClock == 8
RaceSaves == {0, 4, 5, 8}

\* two workers about to run cleanup_tasks over one store and one backend
InitRace ==
    /\ CreateIdle
    /\ SelectorIdle
    /\ ProvisionIdle
    /\ SizingIdle
    /\ DetectIdle
    /\ MangleIdle
    /\ SubmitIdle
    /\ AclIdle
    /\ config = race_config
    /\ reaper_pc = "idle"
    /\ reaper_tasks = <<>>
    /\ session = <<>>
    /\ reaper_log = <<>>
    /\ store_at_start = <<>>
    /\ query_time = NoQueries
    /\ other_pass = IdlePass
    /\ compute_backend \in {"batch", "mock"}
    /\ now = RaceClock
    /\ store \in { [id \in StoreIds |-> StoredTask(id, f[id][1], f[id][2])] :
                      f \in [StoreIds -> {"RUNNING", "COMPLETE"} \X RaceSaves] }
    /\ cloud_jobs \in
          IF compute_backend = "batch"
          THEN { [b \in held |-> CloudJob(b, "active", <<[result |-> "success", category |-> None,
                                                    exit_code |-> 0]>>)] :
                   held \in SUBSET StoreIds }
          ELSE {<<>>}
    /\ before_passes = [store |-> store, cloud_jobs |-> cloud_jobs]
    /\ TaskLog_logs = <<>>
    /\ polls = 0
    /\ last_get = NoGet
    /\ last_cancel = NoCancel
    /\ response = NoResponse

NextRace ==
    \/ Reaper_Start
    \/ Reaper_BackendCleanup
    \/ Reaper_DatabaseCleanup
    \/ Reaper_Orphans
    \/ Reaper_PolicyDone
    \/ Reaper_Switch
    \/ Batch_DeletingJobGone

SpecRace == InitRace /\ [][NextRace]_vars

\* what the store holds for row id: its state, or that it is deleted
Outcome(id) == IF id \in DOMAIN store THEN store[id].state ELSE "deleted"

\* the outcomes one pass alone, at the time of the passes, can leave for a row of
\* the store before the passes
SinglePassOutcomes(id) ==
    LET row == before_passes.store[id]
        reported == compute_backend = "mock"
                    \/ row.backend_id \in DOMAIN before_passes.cloud_jobs
        cancelled_first == row.updated_ts <= now - config.TASK_BACKEND_CLEANUP_HOURS
        decision == orphan_policy(IF reported THEN [kind |-> "task"] ELSE BackendFalse,
                                  row.updated_ts, now, config)
    IN IF row.updated_ts <= now - config.TASK_DATABASE_CLEANUP_HOURS THEN {"deleted"}
       ELSE IF row.state # "RUNNING" THEN {row.state}
       ELSE IF decision = "none" THEN {"RUNNING"}
       ELSE IF decision = "CANCELED" /\ cancelled_first /\ compute_backend = "batch"
            THEN {"CANCELED", "UNKNOWN"}
       ELSE {decision}

\* C17: when two interleaved passes have both ended without raising, every row is
\* as one pass alone could have left it.
C17_TwoPassesLeaveSinglePassState ==
    (reaper_pc = "done" /\ other_pass.reaper_pc = "done") =>
        \A id \in DOMAIN before_passes.store : Outcome(id) \in SinglePassOutcomes(id)

\* C17 for one pass alone: when one worker's pass has ended without raising and the
\* other worker has not started, every row is among these outcomes
C17_OnePassLeavesSinglePassState ==
    (reaper_pc = "done" /\ other_pass.reaper_pc = "idle") =>
        \A id \in DOMAIN before_passes.store : Outcome(id) \in SinglePassOutcomes(id)

\* C17 for the backend: no cancel_task of either pass, on a job the other pass had
\* cancelled or that was gone, ended the pass
C17_CancelNeverFatal ==
    \A i \in DOMAIN reaper_log :
        reaper_log[i].op = "cancel_task" =>
            (reaper_pc = "backend_error" => i < Len(reaper_log))

(* ---------------------- properties of cancel_task --------------------- *)
\* C20: a cancel_task of the Batch backend made exactly one job.delete call and gave
\* True or False, never an exception: False when the account held no job of that
\* id or the call met a fault, and True only when the account held the job and the
\* call met no fault; a True left the job deleted or being deleted.
C20_CancelTrueFalseOneAttempt ==
    (last_cancel.called /\ compute_backend = "batch") =>
        /\ last_cancel.calls = <<"job.delete">>
        /\ last_cancel.result \in {BackendTrue, BackendFalse}
        /\ (~last_cancel.known \/ last_cancel.fault # "none")
              => last_cancel.result = BackendFalse
        /\ last_cancel.result = BackendTrue =>
              /\ last_cancel.known /\ last_cancel.fault = "none"
              /\ \/ last_cancel.task_id \notin DOMAIN cloud_jobs
                 \/ cloud_jobs[last_cancel.task_id].state = "deleting"

\* C20, first half: a cancel of a job the account held and was not yet deleting,
\* with no fault, gave True
C20_CancelOfHeldJobIsTrue ==
    [][(last_cancel' # last_cancel /\ compute_backend = "batch"
        /\ last_cancel'.known /\ last_cancel'.fault = "none"
        /\ cloud_jobs[last_cancel'.task_id].state # "deleting")
       => (last_cancel'.result = BackendTrue
           /\ cloud_jobs'[last_cancel'.task_id].state = "deleting")]_vars

\* one cancel met a fault on a job the account holds and was answered with False
\* and status 500, with a single job.delete
C20_Witness ==
    /\ compute_backend = "batch"
    /\ last_cancel.called /\ last_cancel.known /\ last_cancel.fault # "none"
    /\ last_cancel.result = BackendFalse
    /\ response.code = 500

\* one cancel deleted the job and was answered with True
C20_WitnessTrue ==
    /\ compute_backend = "batch"
    /\ last_cancel.called /\ last_cancel.result = BackendTrue
    /\ response = [task_id |-> 1, code |-> 200, body |-> EmptyBody]

(* ------------------------ backends.ComputeBackend --------------------- *)
\* application contexts pushed, and accesses of the backend property
MaxContexts == 2
MaxAccesses == 4

\* backends/__init__.py 16-20: the names of the backends
BACKENDS == {"aks", "batch", "mock"}

\* the names a deployment sets COMPUTE_BACKEND to: one of a backend, one of none
BackendNames == {"mock", "bogus"}

\* app.config.get('COMPUTE_BACKEND')
config_get(cfg) == IF cfg.set THEN cfg.value ELSE None

\* line 32: app.config.setdefault('COMPUTE_BACKEND', 'batch')
init_app(cfg) == IF cfg.set THEN cfg ELSE Set("batch")

\* tesazure/__init__.py 117-123: the exception validate_config raises, or "none"
validate_config(cfg) ==
    IF ~cfg.set THEN "KeyError"
    ELSE IF cfg.value \notin {"mock", "aks", "batch"} THEN "ValueError"
    ELSE "none"

\* create_app: from_object, register_extensions with compute_backend.init_app, then
\* validate_config
create_app ==
    /\ startup = "not_started"
    /\ app_config' = init_app(config_object)
    /\ startup' = IF validate_config(init_app(config_object)) = "none" THEN "running"
                  ELSE validate_config(init_app(config_object))
    /\ UNCHANGED <<config_object, pushed, ctx_stack, ctx_compute_backend, instances,
                   accesses, createVars, pollVars, reaperVars, raceVars, provisionVars,
                   sizingVars, detectVars, mangleVars, submitVars, aclVars>>

\* with app.app_context(): a request or a job enters its scope
app_context_push ==
    /\ startup = "running"
    /\ pushed < MaxContexts
    /\ pushed' = pushed + 1
    /\ ctx_stack' = Append(ctx_stack, pushed + 1)
    /\ UNCHANGED <<config_object, app_config, startup, ctx_compute_backend, instances,
                   accesses, createVars, pollVars, reaperVars, raceVars, provisionVars,
                   sizingVars, detectVars, mangleVars, submitVars, aclVars>>

\* the scope ends: lines 35-37, teardown, do nothing; the context object is dropped
app_context_pop ==
    /\ ctx_stack # <<>>
    /\ LET c == ctx_stack[Len(ctx_stack)]
       IN /\ ctx_stack' = SubSeq(ctx_stack, 1, Len(ctx_stack) - 1)
          /\ ctx_compute_backend' =
                [x \in DOMAIN ctx_compute_backend \ {c} |-> ctx_compute_backend[x]]
    /\ UNCHANGED <<config_object, app_config, startup, pushed, instances, accesses,
                   createVars, pollVars, reaperVars, raceVars, provisionVars, sizingVars,
                   detectVars, mangleVars, submitVars, aclVars>>

\* the running application's COMPUTE_BACKEND is set to another name, as
\* pytest.mark.options does for a test
config_update(v) ==
    /\ startup = "running"
    /\ app_config # Set(v)
    /\ app_config' = Set(v)
    /\ UNCHANGED <<config_object, startup, pushed, ctx_stack, ctx_compute_backend,
                   instances, accesses, createVars, pollVars, reaperVars, raceVars,
                   provisionVars, sizingVars, detectVars, mangleVars, submitVars, aclVars>>

\* a selector that never finds the attribute on the context
hasattr_compute_backend_Never(attrs, c) == FALSE

\* line 44: hasattr(ctx, 'compute_backend')
hasattr_compute_backend(attrs, c) == c \in DOMAIN attrs

\* one access of the property
Access(c, name, cached, outcome, instance) ==
    [ctx |-> c, name |-> name, cached |-> cached, outcome |-> outcome,
     instance |-> instance]

\* lines 39-48: ComputeBackend.backend. Outside an application context current_app
\* raises at line 41.
ComputeBackend_backend ==
    /\ Len(accesses) < MaxAccesses
    /\ IF ctx_stack = <<>>
       THEN /\ accesses' = Append(accesses, Access(0, None, FALSE, "RuntimeError", 0))
            /\ UNCHANGED <<ctx_compute_backend, instances>>
       ELSE LET c == ctx_stack[Len(ctx_stack)]
                name == config_get(app_config)
            IN IF hasattr_compute_backend(ctx_compute_backend, c)
               THEN /\ accesses' = Append(accesses, Access(c, name, TRUE, "instance",
                                                          ctx_compute_backend[c]))
                    /\ UNCHANGED <<ctx_compute_backend, instances>>
               ELSE IF name \notin BACKENDS
               THEN /\ accesses' = Append(accesses,
                                          Access(c, name, FALSE, "ValueError", 0))
                    /\ UNCHANGED <<ctx_compute_backend, instances>>
               ELSE /\ instances' = Append(instances, [class |-> name, ctx |-> c])
                    /\ ctx_compute_backend' =
                          [x \in DOMAIN ctx_compute_backend \cup {c} |->
                             IF x = c THEN Len(instances) + 1
                             ELSE ctx_compute_backend[x]]
                    /\ accesses' = Append(accesses, Access(c, name, FALSE, "instance",
                                                          Len(instances) + 1))
    /\ UNCHANGED <<config_object, app_config, startup, pushed, ctx_stack, createVars,
                   pollVars, reaperVars, raceVars, provisionVars, sizingVars, detectVars,
                   mangleVars, submitVars, aclVars>>

\* create_app is about to be given a config object that sets COMPUTE_BACKEND to
\* some name, or does not set it
InitSelector ==
    /\ CreateIdle
    /\ PollIdle
    /\ ReaperIdle
    /\ ProvisionIdle
    /\ SizingIdle
    /\ DetectIdle
    /\ MangleIdle
    /\ SubmitIdle
    /\ AclIdle
    /\ config_object \in {Unset} \cup {Set(v) : v \in BackendNames}
    /\ app_config = Unset
    /\ startup = "not_started"
    /\ pushed = 0
    /\ ctx_stack = <<>>
    /\ ctx_compute_backend = <<>>
    /\ instances = <<>>
    /\ accesses = <<>>

NextSelector ==
    \/ create_app
    \/ app_context_push
    \/ app_context_pop
    \/ \E v \in BackendNames : config_update(v)
    \/ ComputeBackend_backend

SpecSelector == InitSelector /\ [][NextSelector]_vars

(* ----------------------- properties of the selector ------------------- *)
\* C18: no application context has had two backends constructed for it; two
\* accesses that returned a backend returned the same one iff they were made in the
\* same context, and the one returned was constructed for that context; every
\* access outside any context raised.
C18_OneBackendPerScope ==
    /\ \A i, j \in DOMAIN instances : instances[i].ctx = instances[j].ctx => i = j
    /\ \A a, b \in DOMAIN accesses :
          (accesses[a].outcome = "instance" /\ accesses[b].outcome = "instance") =>
              (accesses[a].ctx = accesses[b].ctx
                  <=> accesses[a].instance = accesses[b].instance)
    /\ \A a \in DOMAIN accesses :
          accesses[a].outcome = "instance" =>
              /\ accesses[a].instance \in DOMAIN instances
              /\ instances[accesses[a].instance].ctx = accesses[a].ctx
    /\ \A a \in DOMAIN accesses :
          accesses[a].ctx = 0 => accesses[a].outcome = "RuntimeError"

\* one context was given its backend twice, another context another backend, and an
\* access outside any context raised
C18_Witness ==
    /\ \E a, b \in DOMAIN accesses :
          /\ a < b /\ accesses[a].ctx = accesses[b].ctx
          /\ accesses[a].outcome = "instance" /\ accesses[b].outcome = "instance"
    /\ \E a, b \in DOMAIN accesses :
          /\ accesses[a].ctx # accesses[b].ctx
          /\ accesses[a].outcome = "instance" /\ accesses[b].outcome = "instance"
    /\ \E a \in DOMAIN accesses : accesses[a].outcome = "RuntimeError"

\* C19: when the config object sets COMPUTE_BACKEND to an unknown name or does not
\* set it, the application does not come up and no backend is ever constructed.
C19_UnknownOrMissingNameIsFatal ==
    (~config_object.set \/ config_object.value \notin BACKENDS) =>
        /\ startup \in {"not_started", "KeyError", "ValueError"}
        /\ instances = <<>>

\* C19 for an unknown name: create_app given an unknown name raises, and an access
\* in a context without a backend, made while the configured name is unknown,
\* raises ValueError, constructs nothing and leaves the context without a backend
C19_UnknownNameRaisesCachesNothing ==
    [][/\ (startup = "not_started" /\ startup' # "not_started"
           /\ config_object.set /\ config_object.value \notin BACKENDS)
          => startup' = "ValueError"
       /\ (/\ Len(accesses') = Len(accesses) + 1
           /\ ctx_stack # <<>>
           /\ ~hasattr_compute_backend(ctx_compute_backend, ctx_stack[Len(ctx_stack)])
           /\ config_get(app_config) \notin BACKENDS)
          => /\ accesses'[Len(accesses')].outcome = "ValueError"
             /\ instances' = instances
             /\ ctx_compute_backend' = ctx_compute_backend]_vars

(* ------------- the provisioning workflow: provisionerapi and batch ------------- *)
\* the service-principal secret of a request, and the keys the cloud may hand out
SpSecret == "sp-secret"
AccountKeys == {"key-a", "key-b"}

\* batch/__init__.py 499-508: the marker that replaces a value handed to the key vault
Redacted == "*******************"

\* batch/models.py 65-79: the ProvisionRequest of request k, every name given
ProvisionRequest(k) ==
    [service_principal |-> [client_id |-> "client_id", secret |-> SpSecret,
                            tenant |-> "tenant"],
     subscription_id |-> "sub_id",
     resource_group |-> "rg-" \o ToString(k),
     location |-> "westus2",
     storage_account_name |-> "storage-" \o ToString(k),
     storage_sku |-> "standard_lrs",
     batch_account_name |-> "batch-" \o ToString(k)]

\* batch/models.py 35-38: the fields ServicePrincipalSchema declares, all dumped
ServicePrincipalSchema_dump(sp) ==
    [client_id |-> sp.client_id, secret |-> sp.secret, tenant |-> sp.tenant]

\* batch/models.py 52-59: schema.dump(provision_request).data
ProvisionRequestSchema_dump(req) ==
    [service_principal |-> ServicePrincipalSchema_dump(req.service_principal),
     subscription_id |-> req.subscription_id,
     resource_group |-> req.resource_group,
     location |-> req.location,
     storage_account_name |-> req.storage_account_name,
     storage_sku |-> req.storage_sku,
     batch_account_name |-> req.batch_account_name]

\* batch/models.py 82-89: schema.dump(status).data, the status by its name
ProvisionStatusSchema_dump(status) ==
    [status |-> status.status,
     error_message |-> status.error_message,
     storage_account_name |-> status.storage_account_name,
     storage_account_key |-> status.storage_account_key,
     batch_account_name |-> status.batch_account_name,
     batch_account_url |-> status.batch_account_url,
     batch_account_key |-> status.batch_account_key]

\* lines 516-520: _updateProvisionStatus, the status dumped into the row and saved
updateProvisionStatus(rows, k, status) ==
    [rows EXCEPT ![k].status_json = ProvisionStatusSchema_dump(status)]

\* a cloud call of the worker and what it gave: ok or the exception, and the
\* name, url and key of the account it created
CloudCall(op, err, name, url, key) ==
    [op |-> op, err |-> err, name |-> name, url |-> url, key |-> key]

\* the exceptions a cloud call may raise, "none" for a call that went through
CloudErrors == {"none", "CloudError"}

\* lines 566-570: the except clause
ProvisionFailed(status, err) ==
    [status EXCEPT !.status = "ERROR",
                   !.error_message = "Error during batch provisioning process. Error: "
                                     \o err]

\* lines 499-508: the fields handed to the key vault, in order, and their secret names
KeyVaultFields ==
    <<"batch_account_name", "batch_account_url", "batch_account_key",
      "storage_account_name", "storage_account_key">>
KeyVaultSecrets ==
    <<"BATCH-ACCOUNT-NAME", "BATCH-ACCOUNT-URL", "BATCH-ACCOUNT-KEY",
      "STORAGE-ACCOUNT-NAME", "STORAGE-ACCOUNT-KEY">>

\* config.py 63
KEYVAULT_SECRETS_PREFIX == "TESAZURE-"

\* a publication that goes on past a key_vault.set that raised, leaving the rest as
\* it is and reporting nothing
try_add_keyvault_config_SwallowsErrors(status, url, failing) ==
    IF ~url.set THEN [status |-> status, sets |-> <<>>, err |-> "none"]
    ELSE LET n == IF failing = 0 THEN Len(KeyVaultFields) ELSE failing - 1
         IN [status |-> [f \in DOMAIN status |->
                           IF \E i \in 1..n : KeyVaultFields[i] = f
                           THEN Redacted ELSE status[f]],
             sets |-> [i \in 1..n |-> [name |-> KEYVAULT_SECRETS_PREFIX \o KeyVaultSecrets[i],
                                       value |-> status[KeyVaultFields[i]]]],
             err |-> "none"]

\* lines 490-511: _try_add_keyvault_config, the key_vault.set at position failing
\* raising (0: none does): [status, sets, err]
try_add_keyvault_config(status, url, failing) ==
    IF ~url.set THEN [status |-> status, sets |-> <<>>, err |-> "none"]
    ELSE LET n == IF failing = 0 THEN Len(KeyVaultFields) ELSE failing - 1
         IN [status |-> [f \in DOMAIN status |->
                           IF \E i \in 1..n : KeyVaultFields[i] = f
                           THEN Redacted ELSE status[f]],
             sets |-> [i \in 1..n |-> [name |-> KEYVAULT_SECRETS_PREFIX \o KeyVaultSecrets[i],
                                       value |-> status[KeyVaultFields[i]]]],
             err |-> IF failing = 0 THEN "none" ELSE "KeyVaultErrorException"]

\* provisionerapi/api.py 16-45: POST of request k. The request is refused as
\* invalid (422), refused by provision_check (422), or stored and handed to the worker
Provision_post(k) ==
    /\ provision_pc[k] = "not_posted"
    /\ \E outcome \in {"stored", "ValidationError", "CloudError"} :
          IF outcome = "stored"
          THEN /\ trackers' =
                    [x \in DOMAIN trackers \cup {k} |->
                       IF x = k
                       THEN [request_json |->
                                 ProvisionRequestSchema_dump(ProvisionRequest(k)),
                             status_json |-> EmptyStatusJson]
                       ELSE trackers[x]]
               /\ provision_pc' = [provision_pc EXCEPT ![k] = "queued"]
               /\ provision_response' = [provision_response EXCEPT ![k] = 202]
          ELSE /\ provision_pc' = [provision_pc EXCEPT ![k] = "refused"]
               /\ provision_response' = [provision_response EXCEPT ![k] = 422]
               /\ UNCHANGED trackers
    /\ UNCHANGED <<KEYVAULT_URL, provision_status, cloud_calls, key_vault>>
    /\ UNCHANGED <<createVars, pollVars, reaperVars, raceVars, selectorVars, sizingVars, detectVars,
                   mangleVars, submitVars, aclVars>>

\* lines 522-539: the tracker is loaded and the status INPROGRESS is saved
worker_provision_start_Begin(k) ==
    /\ provision_pc[k] = "queued"
    /\ provision_status' =
          [provision_status EXCEPT ![k] = [ProvisionStatus EXCEPT !.status = "INPROGRESS"]]
    /\ trackers' = updateProvisionStatus(trackers, k, provision_status'[k])
    /\ provision_pc' = [provision_pc EXCEPT ![k] = "credentials"]
    /\ UNCHANGED <<KEYVAULT_URL, cloud_calls, key_vault, provision_response>>
    /\ UNCHANGED <<createVars, pollVars, reaperVars, raceVars, selectorVars, sizingVars, detectVars,
                   mangleVars, submitVars, aclVars>>

\* lines 541-545: ServicePrincipalCredentials(...), which signs in to the directory.
\* The call stands before the try: its exception leaves the worker
worker_provision_start_Credentials(k) ==
    /\ provision_pc[k] = "credentials"
    /\ \E err \in {"none", "AuthenticationError"} :
          /\ cloud_calls' = [cloud_calls EXCEPT ![k] =
                                Append(@, CloudCall("ServicePrincipalCredentials", err,
                                                    "", "", ""))]
          /\ provision_pc' = [provision_pc EXCEPT ![k] =
                                 IF err = "none" THEN "resource_group" ELSE "raised"]
    /\ UNCHANGED <<KEYVAULT_URL, trackers, provision_status, key_vault, provision_response>>
    /\ UNCHANGED <<createVars, pollVars, reaperVars, raceVars, selectorVars, sizingVars, detectVars,
                   mangleVars, submitVars, aclVars>>

\* lines 550-572: one step inside the try. The call op gave err and the status after;
\* an exception runs the except clause, and the finally clause saves the status
ProvisionStep(k, call, after, next) ==
    /\ cloud_calls' = [cloud_calls EXCEPT ![k] = Append(@, call)]
    /\ IF call.err = "none"
       THEN /\ provision_status' = [provision_status EXCEPT ![k] = after]
            /\ provision_pc' = [provision_pc EXCEPT ![k] = next]
            /\ UNCHANGED trackers
       ELSE /\ provision_status' =
                 [provision_status EXCEPT ![k] = ProvisionFailed(after, call.err)]
            /\ trackers' = updateProvisionStatus(trackers, k, provision_status'[k])
            /\ provision_pc' = [provision_pc EXCEPT ![k] = "returned"]

\* lines 551-552: _create_resource_group
worker_provision_start_ResourceGroup(k) ==
    /\ provision_pc[k] = "resource_group"
    /\ \E err \in CloudErrors :
          ProvisionStep(k, CloudCall("_create_resource_group", err, "", "", ""),
                        provision_status[k], "storage")
    /\ UNCHANGED <<KEYVAULT_URL, key_vault, provision_response>>
    /\ UNCHANGED <<createVars, pollVars, reaperVars, raceVars, selectorVars, sizingVars, detectVars,
                   mangleVars, submitVars, aclVars>>

\* lines 554-557: _create_storage_account, which gives the name and the first key
worker_provision_start_Storage(k) ==
    /\ provision_pc[k] = "storage"
    /\ \E err \in CloudErrors, key \in AccountKeys :
          LET name == trackers[k].request_json.storage_account_name
          IN ProvisionStep(k,
                 IF err = "none" THEN CloudCall("_create_storage_account", err, name, "", key)
                 ELSE CloudCall("_create_storage_account", err, "", "", ""),
                 IF err = "none"
                 THEN [provision_status[k] EXCEPT !.storage_account_name = name,
                                                  !.storage_account_key = key]
                 ELSE provision_status[k],
                 "batch")
    /\ UNCHANGED <<KEYVAULT_URL, key_vault, provision_response>>
    /\ UNCHANGED <<createVars, pollVars, reaperVars, raceVars, selectorVars, sizingVars, detectVars,
                   mangleVars, submitVars, aclVars>>

\* lines 559-562: _create_batch_account, which gives the name, the url and the
\* primary key
worker_provision_start_Batch(k) ==
    /\ provision_pc[k] = "batch"
    /\ \E err \in CloudErrors, key \in AccountKeys :
          LET name == trackers[k].request_json.batch_account_name
              url == "https://" \o name \o ".batch"
          IN ProvisionStep(k,
                 IF err = "none" THEN CloudCall("_create_batch_account", err, name, url, key)
                 ELSE CloudCall("_create_batch_account", err, "", "", ""),
                 IF err = "none"
                 THEN [provision_status[k] EXCEPT !.batch_account_name = name,
                                                  !.batch_account_url = url,
                                                  !.batch_account_key = key]
                 ELSE provision_status[k],
                 "keyvault")
    /\ UNCHANGED <<KEYVAULT_URL, key_vault, provision_response>>
    /\ UNCHANGED <<createVars, pollVars, reaperVars, raceVars, selectorVars, sizingVars, detectVars,
                   mangleVars, submitVars, aclVars>>

\* the key_vault.set calls that may raise: none (0), or the one at a position
KeyVaultFailures(url) == IF url.set THEN 0..Len(KeyVaultFields) ELSE {0}

\* lines 564-572: _try_add_keyvault_config, then CREATED, then the finally clause
worker_provision_start_KeyVault(k) ==
    /\ provision_pc[k] = "keyvault"
    /\ \E failing \in KeyVaultFailures(KEYVAULT_URL) :
          LET out == try_add_keyvault_config(provision_status[k], KEYVAULT_URL, failing)
              final == IF out.err = "none" THEN [out.status EXCEPT !.status = "CREATED"]
                       ELSE ProvisionFailed(out.status, out.err)
          IN /\ cloud_calls' = [cloud_calls EXCEPT ![k] =
                                   Append(@, CloudCall("_try_add_keyvault_config", out.err,
                                                       "", "", ""))]
             /\ key_vault' = [key_vault EXCEPT ![k] = @ \o out.sets]
             /\ provision_status' = [provision_status EXCEPT ![k] = final]
             /\ trackers' = updateProvisionStatus(trackers, k, final)
             /\ provision_pc' = [provision_pc EXCEPT ![k] = "returned"]
    /\ UNCHANGED <<KEYVAULT_URL, provision_response>>
    /\ UNCHANGED <<createVars, pollVars, reaperVars, raceVars, selectorVars, sizingVars, detectVars,
                   mangleVars, submitVars, aclVars>>

\* a deployment with or without a key vault, and no request posted yet
InitProvision ==
    /\ CreateIdle
    /\ PollIdle
    /\ ReaperIdle
    /\ SelectorIdle
    /\ SizingIdle
    /\ DetectIdle
    /\ MangleIdle
    /\ SubmitIdle
    /\ AclIdle
    /\ KEYVAULT_URL \in {Unset, Set("https://vault")}
    /\ trackers = <<>>
    /\ provision_pc = [k \in Provisions |-> "not_posted"]
    /\ provision_status = [k \in Provisions |-> ProvisionStatus]
    /\ cloud_calls = [k \in Provisions |-> <<>>]
    /\ key_vault = [k \in Provisions |-> <<>>]
    /\ provision_response = [k \in Provisions |-> 0]

NextProvision ==
    \/ \E k \in Provisions : Provision_post(k)
    \/ \E k \in Provisions : worker_provision_start_Begin(k)
    \/ \E k \in Provisions : worker_provision_start_Credentials(k)
    \/ \E k \in Provisions : worker_provision_start_ResourceGroup(k)
    \/ \E k \in Provisions : worker_provision_start_Storage(k)
    \/ \E k \in Provisions : worker_provision_start_Batch(k)
    \/ \E k \in Provisions : worker_provision_start_KeyVault(k)

SpecProvision == InitProvision /\ [][NextProvision]_vars

\* C21: once the worker has written INPROGRESS, the status ends as CREATED or ERROR:
\* a failure of credential construction, resource group, storage account, batch
\* account or secret publication leaves ERROR with a message, never INPROGRESS.
\* As a final result: a worker that has ended left CREATED, or ERROR with a message.
C21_EndedWorkerLeftFinalStatus ==
    \A k \in Provisions :
        provision_pc[k] \in {"returned", "raised"} =>
            LET s == trackers[k].status_json
            IN \/ s.status = "CREATED"
               \/ s.status = "ERROR" /\ s.error_message # ""

\* a failure inside the try (resource group, storage account, batch account, secret
\* publication) does leave ERROR with a message
C21_FailureInsideTryLeavesError ==
    \A k \in Provisions :
        /\ provision_pc[k] = "returned"
        /\ cloud_calls[k][Len(cloud_calls[k])].err # "none"
        => /\ trackers[k].status_json.status = "ERROR"
           /\ trackers[k].status_json.error_message # ""

\* C22: the workflow never holds progress only in memory across its cloud calls: once
\* a step (resource group, storage account, batch account) has completed, the
\* persisted tracker reflects what the step gave before the next cloud call begins.
C22_TrackerReflectsCompletedSteps ==
    \A k \in Provisions :
        \A i \in DOMAIN cloud_calls[k] :
            LET call == cloud_calls[k][i]
                s == trackers[k].status_json
            IN /\ (/\ call.op = "_create_storage_account"
                   /\ call.err = "none"
                   /\ provision_pc[k] \in {"batch", "keyvault"})
                  => /\ s.storage_account_name = call.name
                     /\ s.storage_account_key = call.key
               /\ (/\ call.op = "_create_batch_account"
                   /\ call.err = "none"
                   /\ provision_pc[k] = "keyvault")
                  => /\ s.batch_account_name = call.name
                     /\ s.batch_account_url = call.url
                     /\ s.batch_account_key = call.key

\* what the code does instead: between the save of INPROGRESS and the end of the
\* worker the row is not written
C22_TrackerWrittenAtStartAndEndOnly ==
    [][\A k \in Provisions :
          (k \in DOMAIN trackers /\ trackers'[k] # trackers[k])
          => \/ provision_pc[k] = "queued" /\ provision_pc'[k] = "credentials"
             \/ provision_pc'[k] = "returned"]_vars

\* the account fields of a persisted status
AccountFields == {KeyVaultFields[i] : i \in DOMAIN KeyVaultFields}

\* C23: with a secret store configured no persisted tracker holds the service-principal
\* secret or a provisioned account key in the clear: after a successful run the
\* account names, url and keys are all the redaction marker, and the stored request
\* does not carry the clear-text secret.
C23_NoClearSecretOnTracker ==
    KEYVAULT_URL.set =>
        \A k \in DOMAIN trackers :
            /\ trackers[k].request_json.service_principal.secret # SpSecret
            /\ trackers[k].status_json.storage_account_key \notin AccountKeys
            /\ trackers[k].status_json.batch_account_key \notin AccountKeys
            /\ trackers[k].status_json.status = "CREATED"
               => \A f \in AccountFields : trackers[k].status_json[f] = Redacted

\* the part about the keys alone: no persisted status holds an account key in the clear
C23_NoClearKeyOnTracker ==
    KEYVAULT_URL.set =>
        \A k \in DOMAIN trackers :
            /\ trackers[k].status_json.storage_account_key \notin AccountKeys
            /\ trackers[k].status_json.batch_account_key \notin AccountKeys

\* the part that holds: a run that ended CREATED left nothing but the marker, and
\* every value went to the key vault
C23_CreatedTrackerIsRedacted ==
    KEYVAULT_URL.set =>
        \A k \in DOMAIN trackers :
            trackers[k].status_json.status = "CREATED"
            => /\ \A f \in AccountFields : trackers[k].status_json[f] = Redacted
               /\ Len(key_vault[k]) = Len(KeyVaultFields)

\* the steps of the workflow, in order
ProvisionSteps ==
    <<"_create_resource_group", "_create_storage_account", "_create_batch_account",
      "_try_add_keyvault_config">>

\* the steps worker k has taken, the construction of the credentials left out
StepsTaken(k) == SelectSeq(cloud_calls[k], LAMBDA c : c.op # "ServicePrincipalCredentials")

\* worker k has taken the four steps once each, in order, and none failed
FourStepsDone(k) ==
    /\ Len(StepsTaken(k)) = Len(ProvisionSteps)
    /\ \A i \in DOMAIN ProvisionSteps :
          /\ StepsTaken(k)[i].op = ProvisionSteps[i]
          /\ StepsTaken(k)[i].err = "none"

\* C24: a run in which no step fails performs resource-group creation, storage-account
\* creation, batch-account creation and secret publication exactly once each in that
\* order, and only then persists CREATED together with the storage and batch account
\* names, url and keys those steps returned; CREATED is never persisted earlier.
C24_CreatedHoldsWhatStepsReturned ==
    \A k \in DOMAIN trackers :
        LET s == trackers[k].status_json
        IN /\ s.status = "CREATED"
              => /\ FourStepsDone(k)
                 /\ s.storage_account_name = StepsTaken(k)[2].name
                 /\ s.storage_account_key = StepsTaken(k)[2].key
                 /\ s.batch_account_name = StepsTaken(k)[3].name
                 /\ s.batch_account_url = StepsTaken(k)[3].url
                 /\ s.batch_account_key = StepsTaken(k)[3].key
           /\ (/\ provision_pc[k] = "returned"
               /\ \A i \in DOMAIN cloud_calls[k] : cloud_calls[k][i].err = "none")
              => s.status = "CREATED"

\* what the tracker shows of a value a step returned: the value, or the redaction
\* marker when a key vault is configured
Shown(returned) == IF KEYVAULT_URL.set THEN Redacted ELSE returned

\* C24, amended: as C24, the persisted names, url and keys being those the steps
\* returned when no key vault is configured and the redaction marker in the place of
\* each when one is.
C24_CreatedHoldsReturnedOrRedacted ==
    \A k \in DOMAIN trackers :
        LET s == trackers[k].status_json
        IN /\ s.status = "CREATED"
              => /\ FourStepsDone(k)
                 /\ s.storage_account_name = Shown(StepsTaken(k)[2].name)
                 /\ s.storage_account_key = Shown(StepsTaken(k)[2].key)
                 /\ s.batch_account_name = Shown(StepsTaken(k)[3].name)
                 /\ s.batch_account_url = Shown(StepsTaken(k)[3].url)
                 /\ s.batch_account_key = Shown(StepsTaken(k)[3].key)
           /\ (/\ provision_pc[k] = "returned"
               /\ \A i \in DOMAIN cloud_calls[k] : cloud_calls[k][i].err = "none")
              => s.status = "CREATED"

\* with a key vault configured, every request posted has run to CREATED
C24_Witness ==
    /\ KEYVAULT_URL.set
    /\ \A k \in Provisions :
          /\ provision_pc[k] = "returned"
          /\ FourStepsDone(k)
          /\ trackers[k].status_json.status = "CREATED"

(* ------------------- the VM sizing selector on its own ------------------- *)
\* the cores a requirement may ask for: every number up to one more than the table has
MaxCpuCores == 65

\* the memory and disk a requirement may ask for, in GB: nothing, and on either side
\* of every capacity of the table
RamGbPool ==
    {0, 1, 2, 3, 4, 5, 8, 9, 17, 18, 30, 31, 34, 35, 60, 61, 68, 69, 120, 121, 137, 138,
     240, 241, 274, 275, 481, 482}
DiskGbPool ==
    {0, 10, 11, 21, 22, 42, 43, 53, 54, 85, 86, 107, 108, 214, 215, 412, 413, 429, 430,
     824, 825, 858, 859, 1649, 1650, 1717, 1718, 3298, 3299, 6597, 6598, 10000}

\* a call of determine_azure_vm_for_task with the stored requirement
SelectVm ==
    /\ selected_vm = NotSized
    /\ selected_vm' = determine_azure_vm_for_task(task_resources)
    /\ UNCHANGED task_resources
    /\ UNCHANGED <<createVars, pollVars, reaperVars, raceVars, selectorVars,
                   provisionVars, detectVars, mangleVars, submitVars, aclVars>>

InitSizing ==
    /\ CreateIdle
    /\ PollIdle
    /\ ReaperIdle
    /\ SelectorIdle
    /\ ProvisionIdle
    /\ DetectIdle
    /\ MangleIdle
    /\ SubmitIdle
    /\ AclIdle
    /\ task_resources \in [cpu_cores : 0..MaxCpuCores, ram_gb : RamGbPool,
                           disk_gb : DiskGbPool]
    /\ selected_vm = NotSized

NextSizing == SelectVm

SpecSizing == InitSizing /\ [][NextSizing]_vars

\* the requirement in the three dimensions, a zero replaced by 1 core, 2 GiB, 10 GiB:
\* whether a capacity of the dimension meets it
MeetsCpu(cpu) == cpu >= (IF task_resources.cpu_cores = 0 THEN 1 ELSE task_resources.cpu_cores)
MeetsMem(mem) ==
    IF task_resources.ram_gb = 0 THEN mem >= 2 ELSE GbFitsGiB(mem, task_resources.ram_gb)
MeetsDisk(disk) ==
    IF task_resources.disk_gb = 0 THEN disk >= 10 ELSE GbFitsGiB(disk, task_resources.disk_gb)

\* table entry i meets the requirement in all three dimensions
Meets(i) ==
    /\ MeetsCpu(vms_by_preference[i].cpu)
    /\ MeetsMem(vms_by_preference[i].mem)
    /\ MeetsDisk(vms_by_preference[i].disk)

\* C25: for every requirement (a zero cpu, memory or disk replaced by 1 core, 2 GiB,
\* 10 GiB) the selector returns the first entry in table order whose cpu, memory and
\* disk all meet or exceed it, and raises when no entry meets all three, also when
\* each dimension is within the largest capacity of the table.
C25_FirstFitOrError ==
    selected_vm # NotSized =>
        /\ selected_vm = "ValueError" <=> \A i \in DOMAIN vms_by_preference : ~Meets(i)
        /\ \A i \in DOMAIN vms_by_preference :
              (Meets(i) /\ \A j \in 1..(i - 1) : ~Meets(j))
              => selected_vm = vms_by_preference[i].sku

\* a requirement each dimension of which some entry meets, and no entry meets as a
\* whole, was turned down
C25_Witness ==
    /\ selected_vm = "ValueError"
    /\ \E i \in DOMAIN vms_by_preference : MeetsCpu(vms_by_preference[i].cpu)
    /\ \E i \in DOMAIN vms_by_preference : MeetsMem(vms_by_preference[i].mem)
    /\ \E i \in DOMAIN vms_by_preference : MeetsDisk(vms_by_preference[i].disk)

\* a requirement with a zero in it was given an entry that is not the first of the table
C25_WitnessFirstFit ==
    /\ task_resources.cpu_cores = 0
    /\ task_resources.ram_gb > 0
    /\ selected_vm \notin {NotSized, "ValueError", vms_by_preference[1].sku}

(* --------------- the submitter detector, detect_tags_for_submitter --------------- *)
\* In this part a path is the sequence of its parts below the root,
\* PurePosixPath(path).parts[1:], and a description is description.split(':').

\* workflow ids as Cromwell writes them, and one written without hyphens
Uuid1 == "0911c1c7-de5d-442f-94e8-31814a035f8c"
Uuid2 == "600f4b49-aefd-41fc-9797-94e5b781b0bb"
Uuid1Hex == "0911c1c7de5d442f94e831814a035f8c"

\* line 105: uuid.UUID(s) does not raise ValueError; the hyphens are optional to it
UuidParses(s) == s \in {Uuid1, Uuid2, Uuid1Hex}

\* line 118: s is matched by uuid_regex, which asks for the hyphens
MatchesUuidRegex(s) == s \in {Uuid1, Uuid2}

\* line 119: call-([^/]+) on a part: the name of the call, or None
CallName(s) == IF s = "call-hello" THEN "hello" ELSE None

\* str.endswith on the last two parts: the part before the last ends with
\* "execution", the last part is leaf
EndsWithExecution(p, leaf) ==
    /\ Len(p) >= 2
    /\ p[Len(p)] = leaf
    /\ p[Len(p) - 1] \in {"execution", "myexecution"}

\* line 119: the positions i of a workflow name the regular expression can match at:
\* /tes-wd, anything, the name, the workflow id, call-..., anything, /execution/rc
MatchPositions(p) ==
    { i \in 2..Len(p) :
        /\ p[1] = "tes-wd"
        /\ i + 2 <= Len(p)
        /\ MatchesUuidRegex(p[i + 1])
        /\ CallName(p[i + 2]) # None
        /\ \E m \in (i + 3)..(Len(p) - 1) : p[m] = "execution" /\ p[m + 1] = "rc" }

\* line 119: re.match(...), None or its groups; the first (?:/.*)? is greedy, so the
\* name is taken as far right as a match allows
re_match(p) ==
    IF MatchPositions(p) = {} THEN [matched |-> FALSE]
    ELSE LET i == CHOOSE x \in MatchPositions(p) : \A y \in MatchPositions(p) : y <= x
         IN [matched |-> TRUE, workflow_name |-> p[i], workflow_id |-> p[i + 1],
             call_name |-> CallName(p[i + 2])]

\* lines 114-119: match after the loop: that of the last output whose path ends with
\* execution/rc, False when there is none
match_after_loop(outputs) ==
    LET rcs == { i \in DOMAIN outputs : EndsWithExecution(outputs[i].path, "rc") }
    IN IF rcs = {} THEN [matched |-> FALSE]
       ELSE re_match(outputs[CHOOSE x \in rcs : \A y \in rcs : y <= x].path)

\* str(path): the parts joined
RECURSIVE PathStr(_)
PathStr(p) == IF p = <<>> THEN "" ELSE "/" \o Head(p) \o PathStr(Tail(p))

\* PurePosixPath(path).parent
Parent(p) == SubSeq(p, 1, Len(p) - 1)

\* lines 92-135: detect_tags_for_submitter. has_rc_output is set by every output
\* (line 120), and the execution directory is taken from the last output (line 134)
detect_tags_for_submitter(t) ==
    LET description_uuid == IF UuidParses(Head(t.description))
                            THEN Head(t.description) ELSE "False"
        output_path_is_url == \A i \in DOMAIN t.outputs : t.outputs[i].path = t.outputs[i].url
        has_rc_output == t.outputs # <<>>
        has_stdout_output ==
            \E i \in DOMAIN t.outputs : EndsWithExecution(t.outputs[i].path, "stdout")
        has_stderr_output ==
            \E i \in DOMAIN t.outputs : EndsWithExecution(t.outputs[i].path, "stderr")
        match == match_after_loop(t.outputs)
    IN IF /\ output_path_is_url
          /\ has_rc_output
          /\ has_stdout_output
          /\ has_stderr_output
          /\ match.matched
          /\ match.workflow_id = description_uuid
       THEN { <<"ms-submitter-name", "cromwell">>,
              <<"ms-submitter-workflow-id", match.workflow_id>>,
              <<"ms-submitter-workflow-name", match.workflow_name>>,
              <<"ms-submitter-workflow-stage", match.call_name>>,
              <<"ms-submitter-cromwell-executiondir",
                PathStr(Parent(t.outputs[Len(t.outputs)].path))>> }
       ELSE {}

\* the execution directory of a Cromwell call, and a directory that is none
CallDir(id) == <<"tes-wd", "shared", "wf_hello", id, "call-hello">>
Elsewhere == <<"scratch">>

\* an output whose url is its path, and one that points to another store
Local(p) == [path |-> p, url |-> p]
Remote(p) == [path |-> p, url |-> <<"https:", "", "other-source">>]

\* the outputs a task may declare
DetectOutputPool ==
    { Local(CallDir(Uuid1) \o <<"execution", leaf>>) : leaf \in {"rc", "stdout", "stderr"} }
    \cup { Local(CallDir(Uuid2) \o <<"execution", "rc">>),
           Local(CallDir(Uuid1) \o <<"myexecution", "rc">>),
           Local(Elsewhere \o <<"execution", "stdout">>),
           Local(Elsewhere \o <<"execution", "stderr">>),
           Remote(CallDir(Uuid1) \o <<"execution", "stdout">>),
           Local(<<"tes-wd", "shared", "out.txt">>) }

\* the descriptions a task may carry
DescriptionPool ==
    { <<"">>, <<"hello world">>, <<Uuid1, "wf_hello.hello", "NA", "1">>,
      <<Uuid2, "wf_hello.hello">>, <<Uuid1Hex, "wf_hello.hello">> }

\* the outputs of a task are at most this many
MaxDetectOutputs == 4

\* a call of detect_tags_for_submitter with the stored task
DetectTags ==
    /\ detect_tags = NotDetected
    /\ detect_tags' = detect_tags_for_submitter(detect_task)
    /\ UNCHANGED detect_task
    /\ UNCHANGED <<createVars, pollVars, reaperVars, raceVars, selectorVars,
                   provisionVars, sizingVars, mangleVars, submitVars, aclVars>>

InitDetect ==
    /\ CreateIdle
    /\ PollIdle
    /\ ReaperIdle
    /\ SelectorIdle
    /\ ProvisionIdle
    /\ SizingIdle
    /\ MangleIdle
    /\ SubmitIdle
    /\ AclIdle
    /\ detect_task \in [description : DescriptionPool,
                        outputs : SeqsUpTo(DetectOutputPool, MaxDetectOutputs)]
    /\ detect_tags = NotDetected

NextDetect == DetectTags

SpecDetect == InitDetect /\ [][NextDetect]_vars

\* path p lies under the structure of a Cromwell call and names leaf in its execution
\* directory: /tes-wd/.../<name>/<workflow id>/call-<call>/.../execution/<leaf>
UnderCallStructure(p, leaf, id) ==
    /\ Len(p) >= 6
    /\ p[1] = "tes-wd"
    /\ p[Len(p)] = leaf
    /\ p[Len(p) - 1] = "execution"
    /\ \E i \in 2..(Len(p) - 4) :
          /\ p[i + 1] = id
          /\ MatchesUuidRegex(id)
          /\ CallName(p[i + 2]) # None

\* C26: the detector returns a non-empty tag set only if the leading segment of the
\* description parses as a UUID, the outputs include an rc, a stdout and a stderr
\* output under the expected structural path with path equal to url, and the workflow
\* id in the rc path equals the description UUID; if one of these fails, it is empty.
C26_TagsOnlyIfAllConditionsHold ==
    (detect_tags # NotDetected /\ detect_tags # {}) =>
        LET id == Head(detect_task.description)
            outputs == detect_task.outputs
        IN /\ UuidParses(id)
           /\ \A leaf \in {"rc", "stdout", "stderr"} :
                 \E i \in DOMAIN outputs :
                    /\ \E wf \in {Uuid1, Uuid2} : UnderCallStructure(outputs[i].path, leaf, wf)
                    /\ outputs[i].path = outputs[i].url
           /\ \E i \in DOMAIN outputs : UnderCallStructure(outputs[i].path, "rc", id)

\* what the detector does ask for: a description that parses, every output with path
\* equal to url, an rc output under the structure whose workflow id is the leading
\* segment of the description, and outputs whose paths end with execution/stdout and
\* execution/stderr, wherever they lie
C26_TagsOnlyIfRcStructureAndSuffixes ==
    (detect_tags # NotDetected /\ detect_tags # {}) =>
        LET id == Head(detect_task.description)
            outputs == detect_task.outputs
        IN /\ UuidParses(id)
           /\ \A i \in DOMAIN outputs : outputs[i].path = outputs[i].url
           /\ \E i \in DOMAIN outputs : UnderCallStructure(outputs[i].path, "rc", id)
           /\ \A leaf \in {"stdout", "stderr"} :
                 \E i \in DOMAIN outputs : EndsWithExecution(outputs[i].path, leaf)

\* ---------------------------------------------------------------------------
\* mangle_task_for_submitter (backends/common/__init__.py lines 138-202).
\* A path and a url are the sequences of their parts, as in the detector; an
\* input is its name, path, url and content, an output its name, path and url.

\* line 143: exec_environ_prefix = '/tes-wd/shared'
exec_environ_prefix == <<"tes-wd", "shared">>

\* str.startswith on one part: the parts of the paths used here that begin with
\* another one
BeginsWith(part, begin) ==
    \/ part = begin
    \/ <<begin, part>> \in { <<"shared", "shared-global">>, <<"execution", "execution-old">> }

\* str.startswith on two joined paths: every part but the last of the prefix is
\* equal, and the last one begins the part of the same place
startswith(p, prefix) ==
    /\ Len(p) >= Len(prefix)
    /\ prefix # <<>>
    /\ SubSeq(p, 1, Len(prefix) - 1) = SubSeq(prefix, 1, Len(prefix) - 1)
    /\ BeginsWith(p[Len(prefix)], prefix[Len(prefix)])

\* lines 169-170, 184-185, 198-199: PurePosixPath(path).parts[2:], which drops the
\* root and the first part after it
blob_filename(p) == SubSeq(p, 2, Len(p))

\* PurePosixPath(path).name
path_name(p) == IF p = <<>> THEN "" ELSE p[Len(p)]

\* the container is not configured (config.py has no such key), line 144
CROMWELL_STORAGE_CONTAINER_NAME == None

\* dict.get(key, default) on a dict held as the set of its items
dict_get(d, key, default) ==
    IF \E kv \in d : kv[1] = key THEN (CHOOSE kv \in d : kv[1] = key)[2] ELSE default

\* the permissions of the two shared access signatures, lines 152-161
READ == "?sas=READ"
WRITE == "?sas=WRITE"

\* BlockBlobService.make_blob_url(container_name, blob_name, sas_token)
make_blob_url(container_name, blob_name, sas_token) ==
    <<"https:", "", "account.blob.core.windows.net", container_name>>
        \o blob_name \o <<sas_token>>

\* a listing that takes no notice of the prefix
list_blob_names_WholeContainer(blobs, prefix) == blobs

\* BlockBlobService.list_blob_names(container_name, prefix): the names of the
\* container that start with the prefix, in the order of the listing
list_blob_names(blobs, prefix) ==
    SelectSeq(blobs, LAMBDA b : prefix = <<>> \/ startswith(b, prefix))

\* the execution directories a tag may name, to read the tag back as a path
ExecutionDirs ==
    { <<"tes-wd", "shared", "wf_hello", id, "call-hello", "execution">> : id \in {Uuid1, Uuid2} }
    \cup { <<"scratch", "execution">> }
PurePosixPath(str) == CHOOSE p \in ExecutionDirs : PathStr(p) = str

\* line 166: the input is one Cromwell manages (mutant: the content is not looked at)
IsCromwellInput_IgnoresContent(input) ==
    /\ input.url = input.path
    /\ startswith(input.url, exec_environ_prefix)

\* line 166: the input is one Cromwell manages
IsCromwellInput(input) ==
    /\ input.content \in {None, ""}
    /\ input.url = input.path
    /\ startswith(input.url, exec_environ_prefix)

\* line 196: the output is one Cromwell manages
IsCromwellOutput(output) ==
    /\ output.url = output.path
    /\ startswith(output.path, exec_environ_prefix)

\* lines 138-202: the inputs, the outputs and the storage calls the function leaves
mangle_task_for_submitter(t, blobs) ==
    IF dict_get(t.tags, "ms-submitter-name", None) = "cromwell"
    THEN
      LET container_name ==
              IF CROMWELL_STORAGE_CONTAINER_NAME # None
              THEN CROMWELL_STORAGE_CONTAINER_NAME
              ELSE dict_get(t.tags, "ms-submitter-workflow-id", None)
          \* lines 165-175
          replaced_input(input) ==
              IF IsCromwellInput(input)
              THEN [input EXCEPT !.url =
                        make_blob_url(container_name, blob_filename(input.path), READ)]
              ELSE input
          replacement_inputs == [i \in DOMAIN t.inputs |-> replaced_input(t.inputs[i])]
          cromwell_input_filenames ==
              { path_name(t.inputs[i].path) : i \in { j \in DOMAIN t.inputs :
                                                        IsCromwellInput(t.inputs[j]) } }
          \* lines 179-191
          execution_dir == dict_get(t.tags, "ms-submitter-cromwell-executiondir", None)
          skip_injection == execution_dir \in {None, ""}
          blob_execution_dir == blob_filename(PurePosixPath(execution_dir))
          blobs_to_inject ==
              IF skip_injection THEN <<>>
              ELSE SelectSeq(list_blob_names(blobs, blob_execution_dir),
                             LAMBDA blob_path :
                                 /\ path_name(blob_path) \notin cromwell_input_filenames
                                 /\ blob_path # blob_execution_dir)
          injected(blob_path) ==
              [name |-> "injected-" \o path_name(blob_path),
               path |-> Append(PurePosixPath(execution_dir), path_name(blob_path)),
               url |-> make_blob_url(container_name, blob_path, READ),
               content |-> None]
          \* lines 194-202
          replaced_output(output) ==
              IF IsCromwellOutput(output)
              THEN [output EXCEPT !.url =
                        make_blob_url(container_name, blob_filename(output.path), WRITE)]
              ELSE output
      IN [called |-> TRUE,
          inputs |-> replacement_inputs
                     \o [i \in DOMAIN blobs_to_inject |-> injected(blobs_to_inject[i])],
          outputs |-> [i \in DOMAIN t.outputs |-> replaced_output(t.outputs[i])],
          storage_calls |->
              <<"create_container", "generate_container_shared_access_signature",
                "generate_container_shared_access_signature">>
              \o [i \in DOMAIN SelectSeq(t.inputs, IsCromwellInput) |-> "make_blob_url"]
              \o (IF skip_injection THEN <<>> ELSE <<"list_blob_names">>)
              \o [i \in DOMAIN blobs_to_inject |-> "make_blob_url"]
              \o [i \in DOMAIN SelectSeq(t.outputs, IsCromwellOutput) |-> "make_blob_url"]]
    ELSE [called |-> TRUE, inputs |-> t.inputs, outputs |-> t.outputs,
          storage_calls |-> <<>>]

\* the five tags detection attaches for the workflow of an id (lines 125-135)
CromwellTags(id) ==
    { <<"ms-submitter-name", "cromwell">>,
      <<"ms-submitter-workflow-id", id>>,
      <<"ms-submitter-workflow-name", "wf_hello">>,
      <<"ms-submitter-workflow-stage", "hello">>,
      <<"ms-submitter-cromwell-executiondir", PathStr(CallDir(id) \o <<"execution">>)>> }

\* the tags a task may carry when it is mangled: none, the detected ones, the
\* submitter named by the client without an execution directory, another submitter
MangleTagPool ==
    { {}, CromwellTags(Uuid1),
      { <<"ms-submitter-name", "cromwell">>, <<"ms-submitter-workflow-id", Uuid1>> },
      { <<"ms-submitter-name", "other">> } }

\* an input as TesInput holds it (models.py lines 88-95)
SubmitterInput(name, path, url, content) ==
    [name |-> name, path |-> path, url |-> url, content |-> content]

\* an output as TesOutput holds it (models.py lines 110-116)
SubmitterOutput(name, path, url) == [name |-> name, path |-> path, url |-> url]

\* a url of another store
OtherSource == <<"https:", "", "other-source">>

\* the inputs a task may declare
MangleInputPool ==
    { SubmitterInput("script", CallDir(Uuid1) \o <<"execution", "script">>,
               CallDir(Uuid1) \o <<"execution", "script">>, None),
      SubmitterInput("global", <<"tes-wd", "shared-global", "ref.fa">>,
               <<"tes-wd", "shared-global", "ref.fa">>, None),
      SubmitterInput("external", <<"tes-wd", "shared", "other", "source">>, OtherSource, None),
      SubmitterInput("inline", <<"tes-wd", "shared", "raw">>, <<"tes-wd", "shared", "raw">>, "raw"),
      SubmitterInput("empty", <<"tes-wd", "shared", "empty">>, <<"tes-wd", "shared", "empty">>, ""),
      SubmitterInput("outside", <<"tes-wd", "script">>, <<"tes-wd", "script">>, None) }

\* the outputs a task may declare
MangleOutputPool ==
    { SubmitterOutput("rc", CallDir(Uuid1) \o <<"execution", "rc">>,
                CallDir(Uuid1) \o <<"execution", "rc">>),
      SubmitterOutput("external", <<"tes-wd", "shared", "other", "target">>, OtherSource),
      SubmitterOutput("outside", <<"tes-wd", "foo">>, <<"tes-wd", "foo">>) }

\* the blobs the container may list, in the order of the listing
BlobListing ==
    << <<"shared", "wf_hello", Uuid1, "call-hello", "execution">>,
       <<"shared", "wf_hello", Uuid1, "call-hello", "execution", "script">>,
       <<"shared", "wf_hello", Uuid1, "call-hello", "execution", "ref.fa">>,
       <<"shared", "wf_hello", Uuid2, "call-hello", "execution", "other.tmp">> >>

\* the entries of a listing whose places are in a set, in the order of the listing
Listed(listing, places) ==
    LET upto[n \in 0..Len(listing)] ==
            IF n = 0 THEN <<>>
            ELSE IF n \in places THEN Append(upto[n - 1], listing[n]) ELSE upto[n - 1]
    IN upto[Len(listing)]

\* the inputs and the outputs of a task are at most this many
MaxMangleEntries == 2

\* a call of mangle_task_for_submitter with the stored task
MangleTask ==
    /\ ~mangled.called
    /\ mangled' = mangle_task_for_submitter(mangle_task, container_blobs)
    /\ UNCHANGED <<mangle_task, container_blobs>>
    /\ UNCHANGED <<createVars, pollVars, reaperVars, raceVars, selectorVars,
                   provisionVars, sizingVars, detectVars, submitVars, aclVars>>

InitMangle ==
    /\ CreateIdle
    /\ PollIdle
    /\ ReaperIdle
    /\ SelectorIdle
    /\ ProvisionIdle
    /\ SizingIdle
    /\ DetectIdle
    /\ SubmitIdle
    /\ AclIdle
    /\ mangle_task \in [tags : MangleTagPool,
                        inputs : SeqsUpTo(MangleInputPool, MaxMangleEntries),
                        outputs : SeqsUpTo(MangleOutputPool, MaxMangleEntries)]
    /\ container_blobs \in { Listed(BlobListing, places) : places \in SUBSET DOMAIN BlobListing }
    /\ mangled = NotMangled

NextMangle == MangleTask

SpecMangle == InitMangle /\ [][NextMangle]_vars

\* the submitter tag of a task is set
SubmitterTagSet(t) == <<"ms-submitter-name", "cromwell">> \in t.tags

\* an entry lies under the shared working-directory prefix with its url still its path
RemappedEntry(e) == e.path = e.url /\ startswith(e.path, exec_environ_prefix)

\* an input carries inline content
CarriesContent(input) == input.content \notin {None, ""}

\* an entry after the call differs from the one before it in nothing but the url
SameButUrl(after, before) == [after EXCEPT !.url = before.url] = before

\* C27: mangling rewrites the url, and nothing but the url, of exactly the inputs
\* and outputs whose path equals their url and lies under the shared prefix, inputs
\* carrying inline content excepted; every other declared entry is left as it was,
\* no output is added, and a task without the submitter tag is not changed at all.
C27_MangleRewritesExactlyRemappedEntries ==
    mangled.called =>
        IF SubmitterTagSet(mangle_task)
        THEN /\ Len(mangled.inputs) >= Len(mangle_task.inputs)
             /\ \A i \in DOMAIN mangle_task.inputs :
                    /\ SameButUrl(mangled.inputs[i], mangle_task.inputs[i])
                    /\ mangled.inputs[i].url # mangle_task.inputs[i].url
                       <=> /\ RemappedEntry(mangle_task.inputs[i])
                           /\ ~CarriesContent(mangle_task.inputs[i])
             /\ Len(mangled.outputs) = Len(mangle_task.outputs)
             /\ \A i \in DOMAIN mangle_task.outputs :
                    /\ SameButUrl(mangled.outputs[i], mangle_task.outputs[i])
                    /\ mangled.outputs[i].url # mangle_task.outputs[i].url
                       <=> RemappedEntry(mangle_task.outputs[i])
        ELSE /\ mangled.inputs = mangle_task.inputs
             /\ mangled.outputs = mangle_task.outputs
             /\ mangled.storage_calls = <<>>

\* a tagged task is mangled that declares an input with inline content under the
\* prefix and an output outside it, and one of its entries is rewritten
C27_Witness ==
    /\ mangled.called
    /\ SubmitterTagSet(mangle_task)
    /\ \E i \in DOMAIN mangle_task.inputs :
           CarriesContent(mangle_task.inputs[i]) /\ RemappedEntry(mangle_task.inputs[i])
    /\ \E i \in DOMAIN mangle_task.inputs : mangled.inputs[i].url # mangle_task.inputs[i].url
    /\ \E i \in DOMAIN mangle_task.outputs : ~RemappedEntry(mangle_task.outputs[i])
    /\ \E i \in DOMAIN mangle_task.outputs :
           mangled.outputs[i].url # mangle_task.outputs[i].url

\* ---------------------------------------------------------------------------
\* TaskList.post (tesapi/api.py lines 50-79)

\* the tasks a request may carry: one of no workflow engine, and one of a Cromwell call
PlainRequest ==
    [description |-> <<"hello world">>, tags |-> {},
     inputs |-> <<SubmitterInput("data", <<"data", "in.txt">>, OtherSource, None)>>,
     outputs |-> <<SubmitterOutput("out", <<"tes-wd", "shared", "out.txt">>, OtherSource)>>]
CromwellRequest ==
    [description |-> <<Uuid1, "wf_hello.hello", "NA", "1">>, tags |-> {},
     inputs |-> <<SubmitterInput("script", CallDir(Uuid1) \o <<"execution", "script">>,
                                 CallDir(Uuid1) \o <<"execution", "script">>, None)>>,
     outputs |-> [i \in 1..3 |->
                    LET leaf == <<"rc", "stdout", "stderr">>[i]
                    IN SubmitterOutput(leaf, CallDir(Uuid1) \o <<"execution", leaf>>,
                                       CallDir(Uuid1) \o <<"execution", leaf>>)]]
PostRequests == {PlainRequest, CromwellRequest}

\* dict.update on dicts held as the sets of their items
dict_update(d, other) ==
    { kv \in d : \A new \in other : new[1] # kv[1] } \cup other

\* lines 66-71: the tags of the detector are added, then the task is mangled
DetectAndMangle(request) ==
    LET tags == dict_update(request.tags, detect_tags_for_submitter(request))
        after == mangle_task_for_submitter([request EXCEPT !.tags = tags], BlobListing)
    IN [description |-> request.description, tags |-> tags,
        inputs |-> after.inputs, outputs |-> after.outputs]

\* where an exception leaves createJob, or "none" (lines 244-271)
CreateJobFaults == {"none", "job.add", "task.add"}

\* lines 275-278 and 150-273: what create_task returns or raises for the id drawn
create_task(id, existing, fault) ==
    IF JobIdExists(id, existing) THEN ReturnedFalse
    ELSE IF fault # "none" THEN [kind |-> "raised", id |-> 0]
    ELSE ReturnedId(id)

\* the job is added unless createJob stopped before or at job.add
JobAdded(id, existing, fault) == ~JobIdExists(id, existing) /\ fault # "job.add"

\* CRUDMixin.save of the new row: backend_id is a String column (models.py
\* line 236), which takes a str and, by the database in use, takes or refuses False
SaveOutcomes(backend_id) ==
    IF backend_id.kind = "False" THEN {"committed", "refused"} ELSE {"committed"}

\* the record of one request: the response, the calls of create_task and its result
PostRecord(code, id, create_task_calls, returned) ==
    [code |-> code, id |-> id, create_task_calls |-> create_task_calls,
     returned |-> returned]

\* the requests handled are at most this many
MaxPosts == 3

\* lines 50-79: TaskList.post
TaskList_post ==
    /\ Len(post_log) < MaxPosts
    /\ \/ \* lines 57-63: the request does not validate
          /\ post_log' = Append(post_log, PostRecord(422, 0, 0, NotReturned))
          /\ UNCHANGED <<account_job_ids, task_rows>>
       \/ \E request \in PostRequests, id \in JobIds, fault \in CreateJobFaults :
            LET mangled_task == DetectAndMangle(request)
                backend_id == create_task(id, account_job_ids, fault)
            IN /\ account_job_ids' =
                     IF JobAdded(id, account_job_ids, fault)
                     THEN account_job_ids \cup {id} ELSE account_job_ids
               /\ IF backend_id.kind = "raised"
                  THEN /\ post_log' = Append(post_log, PostRecord(500, 0, 1, backend_id))
                       /\ UNCHANGED task_rows
                  ELSE \E saved \in SaveOutcomes(backend_id) :
                         IF saved = "committed"
                         THEN /\ task_rows' =
                                    Append(task_rows,
                                           [backend_id |-> backend_id,
                                            tenant_id |-> IF access_config.AAD_VERIFY
                                                          THEN jwt_claims.tid ELSE None,
                                            user_id |-> IF access_config.AAD_VERIFY
                                                        THEN jwt_claims.sub ELSE None,
                                            task |-> mangled_task])
                              /\ post_log' = Append(post_log,
                                                    PostRecord(200, Len(task_rows) + 1, 1,
                                                               backend_id))
                         ELSE /\ post_log' = Append(post_log,
                                                    PostRecord(500, 0, 1, backend_id))
                              /\ UNCHANGED task_rows
    /\ UNCHANGED <<createVars, pollVars, reaperVars, raceVars, selectorVars,
                   provisionVars, sizingVars, detectVars, mangleVars, aclVars>>

InitSubmit ==
    /\ CreateIdle
    /\ PollIdle
    /\ ReaperIdle
    /\ SelectorIdle
    /\ ProvisionIdle
    /\ SizingIdle
    /\ DetectIdle
    /\ MangleIdle
    /\ access_config \in [AAD_VERIFY : BOOLEAN,
                         TASK_ACCESS_RESTRICTIONS : {TASK_ACCESS_RESTRICTIONS}]
    /\ jwt_claims = IF access_config.AAD_VERIFY THEN Caller ELSE NoClaims
    /\ account_job_ids \in SUBSET JobIds
    /\ task_rows = <<>>
    /\ post_log = <<>>

NextSubmit == TaskList_post

SpecSubmit == InitSubmit /\ [][NextSubmit]_vars

\* C28: when create_task returns False the creation is reported as a failure: no
\* row holds the failure sentinel as its backend id, the response to that request
\* is not a success carrying a task id, and create_task was called once.
C28_FailedCreateIsReportedAndNotStored ==
    /\ \A i \in DOMAIN task_rows : task_rows[i].backend_id # ReturnedFalse
    /\ \A i \in DOMAIN post_log :
           post_log[i].returned = ReturnedFalse
               => /\ post_log[i].code # 200
                  /\ post_log[i].id = 0
                  /\ post_log[i].create_task_calls = 1

\* ---------------------------------------------------------------------------
\* The access check of Task.get and TaskCancel.post (tesapi/api.py lines 114-124
\* and 151-161) under every access configuration

\* the values of TASK_ACCESS_RESTRICTIONS (config.py lines 38-43)
AccessRestrictions == {None, "per-tenant", "per-user"}

\* one stored task of any owner, submitted as job 1; the job is active, completed
\* or gone
InitAcl ==
    /\ CreateIdle
    /\ SelectorIdle
    /\ ProvisionIdle
    /\ ReaperIdle
    /\ SizingIdle
    /\ DetectIdle
    /\ MangleIdle
    /\ SubmitIdle
    /\ access_config \in [AAD_VERIFY : BOOLEAN, TASK_ACCESS_RESTRICTIONS : AccessRestrictions]
    /\ jwt_claims = IF access_config.AAD_VERIFY THEN Caller ELSE NoClaims
    /\ compute_backend \in {"batch", "mock"}
    /\ IF compute_backend = "batch"
       THEN cloud_jobs \in {<<>>} \cup { [b \in {1} |-> CloudJob(1, st, <<>>)] :
                                          st \in {"active", "completed"} }
       ELSE cloud_jobs = <<>>
    /\ \E tenant_id \in Tenants \cup {None}, user_id \in Users \cup {None} :
         store = [t \in {1} |-> [StoredTask(1, "QUEUED", 0) EXCEPT !.tenant_id = tenant_id,
                                                                   !.user_id = user_id]]
    /\ TaskLog_logs = <<>>
    /\ polls = 0
    /\ last_get = NoGet
    /\ last_cancel = NoCancel
    /\ response = NoResponse
    /\ now = 0

NextAcl ==
    \/ \E task_id \in StoreIds : Task_get(task_id)
    \/ \E task_id \in StoreIds : TaskCancel_post(task_id)

SpecAcl == InitAcl /\ [][NextAcl]_vars

\* what the restriction configured allows the caller for a stored task
AllowedByRestriction(row) ==
    LET tenant_ok == row.tenant_id \in {None, jwt_claims.tid}
        user_ok == row.user_id \in {None, jwt_claims.sub}
    IN CASE access_config.TASK_ACCESS_RESTRICTIONS = None -> TRUE
         [] access_config.TASK_ACCESS_RESTRICTIONS = "per-tenant" -> tenant_ok
         [] access_config.TASK_ACCESS_RESTRICTIONS = "per-user" -> tenant_ok /\ user_ok

\* C29: with identity verification on, a read or a cancel of a stored task is
\* answered 403 exactly when the restriction configured does not allow it: never
\* without a restriction, for another tenant's task under per-tenant, for another
\* tenant's or another user's task under per-user; a request answered 403 makes no
\* backend call and leaves the store and the account as they were.
C29_AccessFollowsRestriction ==
    [][ (polls' = polls + 1 /\ access_config.AAD_VERIFY /\ response'.task_id \in DOMAIN store)
          => IF AllowedByRestriction(store[response'.task_id])
             THEN response'.code # 403
             ELSE /\ response'.code = 403
                  /\ store' = store
                  /\ cloud_jobs' = cloud_jobs
                  /\ TaskLog_logs' = TaskLog_logs
                  /\ last_get' = last_get
                  /\ last_cancel' = last_cancel ]_vars

\* under per-user restriction a request for a task of the caller's tenant and of
\* another user was answered 403, and no backend call has been made
C29_Witness ==
    /\ access_config = [AAD_VERIFY |-> TRUE, TASK_ACCESS_RESTRICTIONS |-> "per-user"]
    /\ response.task_id \in DOMAIN store
    /\ store[response.task_id].tenant_id = jwt_claims.tid
    /\ store[response.task_id].user_id = "user-b"
    /\ response.code = 403
    /\ ~last_get.called
    /\ ~last_cancel.called

\* under per-user restriction the caller read or cancelled a task of its own
C29_WitnessAllowed ==
    /\ access_config = [AAD_VERIFY |-> TRUE, TASK_ACCESS_RESTRICTIONS |-> "per-user"]
    /\ response.task_id \in DOMAIN store
    /\ store[response.task_id].tenant_id = jwt_claims.tid
    /\ store[response.task_id].user_id = jwt_claims.sub
    /\ response.code = 200

\* ---------------------------------------------------------------------------
\* The state get_task returns for a job with a task that failed on the platform

\* a task of the job failed with the server-error category
HasServerErrorTask(batch_job) ==
    \E i \in DOMAIN batch_job.tasks :
        /\ batch_job.tasks[i].result = "failure"
        /\ batch_job.tasks[i].category = "servererror"

\* C30: a get_task that returned a task for a job one of whose executor tasks
\* failed with the server-error category returned it in state SYSTEM_ERROR.
C30_ServerErrorGivesSystemError ==
    ( /\ compute_backend = "batch"
      /\ last_get.called
      /\ last_get.result.kind = "task"
      /\ last_get.task_id \in DOMAIN cloud_jobs
      /\ HasServerErrorTask(cloud_jobs[last_get.task_id]) )
        => last_get.result.state = "SYSTEM_ERROR"

\* ---------------------------------------------------------------------------
\* The state get_task derives (batch/__init__.py lines 294-341), for jobs of every
\* lifecycle value, preparation and release status and task list

\* JobState of the Batch service, and a value state_map does not list
JobStates ==
    {"active", "completed", "deleting", "disabled", "disabling", "enabling",
     "terminating", "unmapped"}

\* what one node reports on the preparation and the release task of the job
NodeInfos ==
    { [prep |-> NoExecutionInfo, release |-> NoExecutionInfo],
      [prep |-> ExecutionInfo("success", "completed"), release |-> NoExecutionInfo],
      [prep |-> ExecutionInfo("failure", "completed"), release |-> NoExecutionInfo],
      [prep |-> ExecutionInfo(None, "running"), release |-> NoExecutionInfo],
      [prep |-> ExecutionInfo("success", "completed"),
       release |-> ExecutionInfo("failure", "completed")],
      [prep |-> ExecutionInfo("success", "completed"),
       release |-> ExecutionInfo(None, "running")],
      [prep |-> ExecutionInfo("failure", "completed"),
       release |-> ExecutionInfo(None, "running")] }

\* the nodes that report on a job are at most this many
MaxNodes == 2

\* a task of a job that has not run to its end: no result and no category yet
Pending(state) == [state |-> state, result |-> None, category |-> None, exit_code |-> -1]

\* a task of a job that has run to its end
Ended(outcome) ==
    [state |-> "completed", result |-> outcome.result, category |-> outcome.category,
     exit_code |-> outcome.exit_code]

\* the task lists of the jobs
JobTaskLists ==
    {<<>>, <<Pending("active")>>, <<Pending("running")>>,
     <<Pending("active"), Pending("running")>>}
    \cup { <<Ended(outcome)>> : outcome \in TaskOutcomes }
    \cup { <<Ended(outcome), Pending("active")>> :
              outcome \in { o \in TaskOutcomes : o.category = "usererror" } }

\* job.get_task_counts of a task list
TaskCounts(tasks) ==
    [failed |-> Cardinality({i \in DOMAIN tasks : tasks[i].result = "failure"}),
     running |-> Cardinality({i \in DOMAIN tasks : tasks[i].state = "running"}),
     active |-> Cardinality({i \in DOMAIN tasks : tasks[i].state = "active"})]

\* a CloudJob of a lifecycle value with the reports of its nodes and with its
\* tasks; it has a release task when a node reports on one
JobInState(id, state, infos, tasks) ==
    [CloudJob(id, state, tasks) EXCEPT
        !.job_release_task = \E n \in DOMAIN infos : infos[n].release.present,
        !.prep_release_status = infos,
        !.task_counts = TaskCounts(tasks)]

\* one stored task, submitted as job 1, which the account holds in any condition
InitDerive ==
    /\ CreateIdle
    /\ SelectorIdle
    /\ ProvisionIdle
    /\ ReaperIdle
    /\ SizingIdle
    /\ DetectIdle
    /\ MangleIdle
    /\ SubmitIdle
    /\ AclIdle
    /\ compute_backend = "batch"
    /\ cloud_jobs \in { [b \in {1} |-> JobInState(1, state, infos, tasks)] :
                           state \in JobStates,
                           infos \in SeqsUpTo(NodeInfos, MaxNodes),
                           tasks \in JobTaskLists }
    /\ store = [t \in {1} |-> StoredTask(1, "QUEUED", 0)]
    /\ TaskLog_logs = <<>>
    /\ polls = 0
    /\ last_get = NoGet
    /\ last_cancel = NoCancel
    /\ response = NoResponse
    /\ now = 0

\* the first status poll of the stored task
FirstPoll == polls = 0 /\ \E task_id \in DOMAIN store : Task_get(task_id)

NextDerive == FirstPoll

SpecDerive == InitDerive /\ [][NextDerive]_vars

\* the job the last get_task call looked up, when the account holds it
LastJob == cloud_jobs[last_get.task_id]
GotJob == last_get.called /\ last_get.fault = "none" /\ last_get.task_id \in DOMAIN cloud_jobs

\* some node reports a result or a state of the preparation or of the release task
SomePrep(batch_job, field, value) ==
    \E n \in DOMAIN batch_job.prep_release_status :
        /\ batch_job.prep_release_status[n].prep.present
        /\ batch_job.prep_release_status[n].prep[field] = value
SomeRelease(batch_job, field, value) ==
    \E n \in DOMAIN batch_job.prep_release_status :
        /\ batch_job.prep_release_status[n].release.present
        /\ batch_job.prep_release_status[n].release[field] = value
SomeFailure(batch_job) == SomePrep(batch_job, "result", "failure") \/ SomeRelease(batch_job, "result", "failure")

\* the state a get_task call returned, or "raised" when it raised
ReturnedState == IF last_get.result.kind = "task" THEN last_get.result.state ELSE "raised"

\* C31: a failure of the preparation or of the release task on any node gives
\* SYSTEM_ERROR, whatever else the nodes report; without a failure a running
\* preparation task gives INITIALIZING and a running release task RUNNING; and a
\* node that reports no preparation info does not make get_task raise.
C31_PrepReleaseFailureGivesSystemError ==
    GotJob =>
        /\ ReturnedState # "raised"
        /\ SomeFailure(LastJob) => ReturnedState = "SYSTEM_ERROR"
        /\ (~SomeFailure(LastJob) /\ SomePrep(LastJob, "state", "running")
              /\ ~SomeRelease(LastJob, "state", "running"))
             => ReturnedState = "INITIALIZING"
        /\ (~SomeFailure(LastJob) /\ SomeRelease(LastJob, "state", "running")
              /\ ~SomePrep(LastJob, "state", "running"))
             => ReturnedState = "RUNNING"

\* no node reports a failure or a running preparation or release task, every node
\* reports on the preparation task, and no task failed on the platform
NoMoreSpecificSignal(batch_job) ==
    /\ ~SomeFailure(batch_job)
    /\ ~SomePrep(batch_job, "state", "running")
    /\ ~SomeRelease(batch_job, "state", "running")
    /\ \A n \in DOMAIN batch_job.prep_release_status :
           batch_job.prep_release_status[n].prep.present
    /\ ~HasServerErrorTask(batch_job)

\* C32: when no more specific signal applies, get_task reports EXECUTOR_ERROR for
\* a job with a failed task, whatever the lifecycle value of the job, and QUEUED for
\* a job without failed tasks none of whose tasks runs and some of whose are active.
C32_FailedTaskGivesExecutorError ==
    (GotJob /\ NoMoreSpecificSignal(LastJob)) =>
        /\ LastJob.task_counts.failed > 0 => ReturnedState = "EXECUTOR_ERROR"
        /\ (LastJob.task_counts.failed = 0 /\ LastJob.task_counts.running = 0
              /\ LastJob.task_counts.active > 0)
             => ReturnedState = "QUEUED"

\* the same for the jobs whose lifecycle value state_map does not list
C32_CountsDecideForUnmappedJobs ==
    (GotJob /\ NoMoreSpecificSignal(LastJob) /\ state_map(LastJob.state) = "UNKNOWN") =>
        /\ LastJob.task_counts.failed > 0 => ReturnedState = "EXECUTOR_ERROR"
        /\ (LastJob.task_counts.failed = 0 /\ LastJob.task_counts.running = 0
              /\ LastJob.task_counts.active > 0)
             => ReturnedState = "QUEUED"


\* the lifecycle mapping as the specification lists it
LifecycleMapping(job_state, other) ==
    CASE job_state = "active" -> "QUEUED"
      [] job_state = "completed" -> "COMPLETE"
      [] job_state = "deleting" -> "CANCELED"
      [] job_state = "disabled" -> "PAUSED"
      [] job_state = "disabling" -> "PAUSED"
      [] job_state = "enabling" -> "PAUSED"
      [] job_state = "terminating" -> "RUNNING"
      [] OTHER -> other

\* a poll that returned a task for a job no node of which reports a failed or
\* running preparation or release task and no task of which failed
PlainJobPolled ==
    /\ GotJob
    /\ last_get.result.kind = "task"
    /\ ~SomeFailure(LastJob)
    /\ ~SomePrep(LastJob, "state", "running")
    /\ ~SomeRelease(LastJob, "state", "running")
    /\ LastJob.task_counts.failed = 0

\* C33 as stated: for a job without preparation or release signals and without
\* failed tasks the reported state is the lifecycle mapping of the job, and
\* UNKNOWN for every lifecycle value the mapping does not list.
C33_StateIsLifecycleMapping ==
    PlainJobPolled => ReturnedState = LifecycleMapping(LastJob.state, "UNKNOWN")

\* C33 amended: for a job without preparation or release signals and without
\* failed tasks the reported state is the lifecycle mapping of the job; a
\* lifecycle value the mapping does not list gives UNKNOWN, or QUEUED when no
\* task of the job is running and some are still active.
C33_StateIsLifecycleMappingOrQueued ==
    PlainJobPolled =>
        ReturnedState =
            LifecycleMapping(LastJob.state,
                             IF LastJob.task_counts.running = 0
                                /\ LastJob.task_counts.active > 0
                             THEN "QUEUED" ELSE "UNKNOWN")

\* an unlisted lifecycle value with an active task gave QUEUED
C33_Witness ==
    /\ PlainJobPolled
    /\ LifecycleMapping(LastJob.state, "other") = "other"
    /\ LastJob.task_counts.active > 0
    /\ ReturnedState = "QUEUED"

\* a terminating job with node reports and a finished task gave RUNNING
C33_WitnessMapped ==
    /\ PlainJobPolled
    /\ LastJob.state = "terminating"
    /\ LastJob.prep_release_status # <<>>
    /\ LastJob.tasks # <<>>
    /\ ReturnedState = "RUNNING"


(* ------------------ a task.add that fails in createJob ------------------ *)
\* call c left createJob by the exception of a task.add: job.add had succeeded
\* (line 245 passed, so the loop index was set) and the call raised
TaskAddFailed(c) == pc[c] = "raised" /\ executor_index[c] >= 1

\* the executors for which c issued a task.add, in the order of the calls
TaskAddsOf(c) ==
    LET adds == SelectSeq(calls[c], LAMBDA k : k.op = "task.add")
    IN [k \in DOMAIN adds |-> adds[k].arg]

\* the job of c is in the account with the tasks of the executors before the
\* failing one
NothingRolledBack(c) ==
    /\ job[c] \in batch_jobs
    /\ batch_tasks[job_id[c]] =
           [k \in 1..(executor_index[c] - 1) |-> TaskAddParameter(task.executors[k])]

C34_WitnessEarlierKept ==
    \E c \in Calls :
        TaskAddFailed(c) /\ executor_index[c] = 2 /\ Len(batch_tasks[job_id[c]]) = 1


(* ------------- the execution directory the detector reports ------------- *)
\* the names of the tags of a confirmed detection
SubmitterTagNames ==
    {"ms-submitter-name", "ms-submitter-workflow-id", "ms-submitter-workflow-name",
     "ms-submitter-workflow-stage", "ms-submitter-cromwell-executiondir"}

\* the output the workflow id, name and stage were taken from: the last one whose
\* path ends with execution/rc
RcOutput(outputs) ==
    LET rcs == { i \in DOMAIN outputs : EndsWithExecution(outputs[i].path, "rc") }
    IN outputs[CHOOSE x \in rcs : \A y \in rcs : y <= x]

\* the detector confirmed the submitter
Detected == detect_tags # NotDetected /\ detect_tags # {}

\* C35: on a confirmed detection the execution directory tag is the parent directory
\* of the path of the rc output, whatever the order of the outputs of the task, and
\* the tag set holds the five submitter tags together.
C35_ExecutionDirIsParentOfRc ==
    Detected =>
        /\ { tag[1] : tag \in detect_tags } = SubmitterTagNames
        /\ <<"ms-submitter-cromwell-executiondir",
             PathStr(Parent(RcOutput(detect_task.outputs).path))>> \in detect_tags

\* what the detector reports: the five tags together, the execution directory
\* being the parent directory of the path of the last output
C35_ExecutionDirIsParentOfLastOutput ==
    Detected =>
        /\ { tag[1] : tag \in detect_tags } = SubmitterTagNames
        /\ <<"ms-submitter-cromwell-executiondir",
             PathStr(Parent(detect_task.outputs[Len(detect_task.outputs)].path))>>
               \in detect_tags


(* --------------- the inputs injected from the execution directory --------------- *)
\* the task carries the submitter tag and the tag of an execution directory
TaggedWithExecutionDir(t) ==
    /\ SubmitterTagSet(t)
    /\ dict_get(t.tags, "ms-submitter-cromwell-executiondir", None) # None

\* the execution directory of the task as a path, and as a blob name
ExecutionDirOf(t) ==
    PurePosixPath(dict_get(t.tags, "ms-submitter-cromwell-executiondir", None))
BlobDirOf(t) == Tail(ExecutionDirOf(t))

\* a blob lies in a directory of the container, or is the directory
InDirectory(b, dir) == Len(b) >= Len(dir) /\ SubSeq(b, 1, Len(dir)) = dir

\* a blob is covered by an input of the task: an input Cromwell manages (path equal
\* to url, under the shared prefix, no inline content) has its file name
CoveredByInput(b, inputs) ==
    \E i \in DOMAIN inputs :
        /\ RemappedEntry(inputs[i])
        /\ ~CarriesContent(inputs[i])
        /\ inputs[i].path[Len(inputs[i].path)] = b[Len(b)]

\* the blobs of the execution directory that no input covers, the directory itself
\* left out, in the order of the listing
UncoveredBlobs(t, blobs) ==
    SelectSeq(blobs, LAMBDA b : /\ InDirectory(b, BlobDirOf(t))
                                /\ b # BlobDirOf(t)
                                /\ ~CoveredByInput(b, t.inputs))

\* the read-only input for a blob of the task's execution directory
ReadOnlyInputFor(t, b) ==
    [name |-> "injected-" \o b[Len(b)],
     path |-> Append(ExecutionDirOf(t), b[Len(b)]),
     url |-> <<"https:", "", "account.blob.core.windows.net",
               dict_get(t.tags, "ms-submitter-workflow-id", None)>> \o b \o <<READ>>,
     content |-> None]

C36_WitnessUnmanagedName ==
    /\ mangled.called
    /\ TaggedWithExecutionDir(mangle_task)
    /\ \E i \in DOMAIN mangle_task.inputs, k \in DOMAIN mangled.inputs :
          /\ k > Len(mangle_task.inputs)
          /\ ~RemappedEntry(mangle_task.inputs[i])
          /\ mangled.inputs[k].name =
                 "injected-" \o mangle_task.inputs[i].path[Len(mangle_task.inputs[i].path)]

\* a blob of the directory was left out because an input Cromwell manages in
\* another directory has its file name
C36_WitnessNameElsewhere ==
    /\ mangled.called
    /\ TaggedWithExecutionDir(mangle_task)
    /\ \E b \in Range(container_blobs) :
          /\ InDirectory(b, BlobDirOf(mangle_task))
          /\ b # BlobDirOf(mangle_task)
          /\ CoveredByInput(b, mangle_task.inputs)
          /\ \A i \in DOMAIN mangle_task.inputs : Tail(mangle_task.inputs[i].path) # b
          /\ \A k \in DOMAIN mangled.inputs : mangled.inputs[k].name # "injected-" \o b[Len(b)]


(* ------------- what a pass of the reaper records for the rows ------------- *)
\* the pass has issued a cancel_task for row id, in the backend cleanup or in the
\* loop over the running tasks
CancelledByPass(id) ==
    \/ Occurrences(Event("backend", "cancel_task", id)) > 0
    \/ Occurrences(Event("orphans", "cancel_task", id)) > 0

\* row id was RUNNING when the pass started and the pass has not deleted it
RunningSurvivor(id) ==
    /\ id \in DOMAIN store
    /\ store_at_start[id].state = "RUNNING"

\* C37: at the end of a pass a running task the pass itself cancelled at the backend,
\* in the backend cleanup or in the timeout step, is recorded CANCELED and not
\* UNKNOWN; UNKNOWN is recorded only for tasks the pass issued no cancel for.
C37_CancelledByReaperIsCanceled ==
    reaper_pc = "done" =>
        \A id \in DOMAIN store_at_start :
            RunningSurvivor(id) =>
                /\ CancelledByPass(id) => store[id].state = "CANCELED"
                /\ store[id].state = "UNKNOWN" => ~CancelledByPass(id)

\* the same for the cancels of the timeout step alone
C37_CancelledByTimeoutIsCanceled ==
    reaper_pc = "done" =>
        \A id \in DOMAIN store_at_start :
            RunningSurvivor(id) =>
                /\ Occurrences(Event("orphans", "cancel_task", id)) > 0
                   => store[id].state = "CANCELED"
                /\ store[id].state = "UNKNOWN" => ~CancelledByPass(id)


\* the stored state, the backend id and the owner of a row
StateIdAndOwner(row) ==
    <<row.state, row.backend_id, row.tenant_id, row.user_id>>

\* C38: a pass changes the stored state only of rows that are RUNNING when the loop
\* over the running tasks runs, and only to UNKNOWN or CANCELED; every other row the
\* pass has not deleted, a row that is not RUNNING and whose job the backend cleanup
\* cancelled included, keeps its state, its backend id and its owner.
C38_OnlyRunningRowsChangeState ==
    reaper_pc # "idle" =>
        \A id \in DOMAIN store :
            /\ id \in DOMAIN store_at_start
            /\ store[id].state # store_at_start[id].state =>
                  /\ store_at_start[id].state = "RUNNING"
                  /\ Occurrences(Event("orphans", "get_task", id)) > 0
                  /\ store[id].state \in {"UNKNOWN", "CANCELED"}
            /\ store_at_start[id].state # "RUNNING" =>
                  StateIdAndOwner(store[id]) = StateIdAndOwner(store_at_start[id])
            /\ store[id].backend_id = store_at_start[id].backend_id
            /\ store[id].tenant_id = store_at_start[id].tenant_id
            /\ store[id].user_id = store_at_start[id].user_id

\* a pass ended that cancelled the job of a row that is not RUNNING in the backend
\* cleanup and kept the row, and that changed the state of a RUNNING row
C38_Witness ==
    /\ reaper_pc = "done"
    /\ \E id \in DOMAIN store :
          /\ store_at_start[id].state # "RUNNING"
          /\ Occurrences(Event("backend", "cancel_task", id)) > 0
    /\ \E id \in DOMAIN store :
          /\ store_at_start[id].state = "RUNNING"
          /\ store[id].state \in {"UNKNOWN", "CANCELED"}


(* ---------------- what a poll leaves of the submitted task ---------------- *)
\* the task as it was stored at submission
Submitted(id) == StoredTask(id, "QUEUED", 0)

\* the fields of a row that describe the submitted task, resources apart, with its
\* backend id and its owner
DescriptionIdAndOwner(row) ==
    <<row.executors, row.name, row.backend_id, row.tenant_id, row.user_id>>

\* C39: a successful poll overwrites only the state, the logs and the creation time
\* of the stored task: after any number of polls its resources, its executors, its
\* name, its backend id and its owner are as they were at submission.
C39_PollKeepsSubmittedDescription ==
    \A id \in DOMAIN store :
        /\ store[id].resources = Submitted(id).resources
        /\ DescriptionIdAndOwner(store[id]) = DescriptionIdAndOwner(Submitted(id))

\* what the polls do keep: everything the claim lists but the resources, which a
\* successful poll replaces by the defaults of TesResources()
C39_PollKeepsAllButResources ==
    /\ \A id \in DOMAIN store :
          DescriptionIdAndOwner(store[id]) = DescriptionIdAndOwner(Submitted(id))
    /\ [][\A id \in DOMAIN store :
             (response'.code = 200 /\ response'.task_id = id /\ last_get' # last_get)
             => store'[id].resources = TesResources]_vars


(* ------------- the stored records and the jobs of the account ------------- *)
\* the row TaskList.post stored for request k of the log, when it stored one
StoredFor(k) == post_log[k].id # 0

\* C40: every stored record carries a backend id that a completed create_task
\* returned for it, the job being in the account before the record is saved; a
\* request whose create_task raised or whose save failed has left no record; and
\* every job a request added to the account has a record that refers to it when the
\* request has been answered.
C40_RecordsAndJobsCorrespond ==
    /\ [](\A k \in DOMAIN post_log :
             IF StoredFor(k)
             THEN /\ post_log[k].returned.kind = "id"
                  /\ task_rows[post_log[k].id].backend_id = post_log[k].returned
                  /\ post_log[k].returned.id \in account_job_ids
             ELSE post_log[k].code # 200)
    /\ [](\A k \in DOMAIN post_log :
             (post_log[k].returned.kind = "raised" \/ post_log[k].code = 500)
                 => ~StoredFor(k))
    /\ [][\A b \in account_job_ids' \ account_job_ids :
             \E i \in DOMAIN task_rows' : task_rows'[i].backend_id = ReturnedId(b)]_vars

\* what holds of every request: a stored record carries the value its one
\* create_task call returned, a request that raised or whose save failed stored
\* nothing, and a request answered with the id of a job left that job in the account
C40_RecordHoldsWhatCreateTaskReturned ==
    \A k \in DOMAIN post_log :
        /\ StoredFor(k) =>
              /\ post_log[k].code = 200
              /\ post_log[k].returned.kind # "raised"
              /\ task_rows[post_log[k].id].backend_id = post_log[k].returned
              /\ post_log[k].returned.kind = "id"
                    => post_log[k].returned.id \in account_job_ids
        /\ (post_log[k].returned.kind = "raised" \/ post_log[k].code # 200)
              => ~StoredFor(k)

=============================================================================
